---- MODULE Spec2Model ----
(***************************************************************************)
(* Decoding pipeline of the F1 2020 telemetry client.                      *)
(*                                                                         *)
(* One behaviour of Spec is one decode call over one datagram:             *)
(* Telemetry::next (src/lib.rs) or a direct call of parse_f12020           *)
(* (src/f1_2020/packet.rs).  A behaviour of SpecCalls is several such      *)
(* calls, each over a buffer of its own, taking their steps in any order.  *)
(* The datagram is a byte buffer given sparsely: `fill` is the byte at     *)
(* every offset that `patch` does not set.  The cursor of the code is      *)
(* `pos`; `pc` names the function about to run.                            *)
(*                                                                         *)
(* TLC integers are 32 bits wide, so a u32 or u64 is kept as the sequence  *)
(* of its 16-bit limbs, most significant limb first, and a float as its    *)
(* sign, biased exponent and mantissa.                                     *)
(***************************************************************************)
EXTENDS Integers, Sequences, FiniteSets, TLC

VARIABLES
  entry,      \* "next": Telemetry::next; "parse_f12020": direct call
  buf_len,    \* length of the Vec<u8> under the cursor
  size,       \* declared datagram length handed to the decoders
  fill,       \* byte at every offset of the datagram not in patch
  patch,      \* offset -> byte, the bytes of the datagram that differ from fill
  pos,        \* cursor.position()
  pc,         \* function about to run; "done" once the call has ended
  header,     \* PacketHeader once parse_headers returned Ok, else NoHeader
  seg,        \* index of the segment of the per-kind decoder being read
  items,      \* the Vec being filled by the running for loop
  acc,        \* locals of the per-kind decoder decoded so far (name -> value)
  outcome,    \* what the call gave back to its caller
  calls,      \* the other calls in progress: each one's own buffer, cursor and locals
  log         \* the calls that returned, in order, with what they returned

vars == <<entry, buf_len, size, fill, patch, pos, pc, header, seg, items, acc, outcome,
          calls, log>>

----------------------------------------------------------------------------
(* Program constants *)

HEADER_MIN_SIZE == 24
MOTION_MIN_SIZE == 1464
SESSION_MIN_SIZE == 251
LAP_DATA_MIN_SIZE == 1190
EVENT_MIN_SIZE == 35
PARTICIPANTS_MIN_SIZE == 1213
CAR_SETUP_MIN_SIZE == 1102
CAR_TELEMETRY_MIN_SIZE == 1307
CAR_STATUS_MIN_SIZE == 1344
FINAL_CLASSIFICATION_MIN_SIZE == 839
LOBBY_INFO_MIN_SIZE == 1169
TOTAL_CARS == 22
MARSHAL_ZONE_MAX == 21
WEATHER_FORECAST_SAMPLE_MAX == 20
NAME_LEN == 48
TYRE_STINTS == 8
RECV_BUF_LEN == 2048
FORMAT_2020 == 2020

----------------------------------------------------------------------------
(* Results of a read or of a validation *)

Ok(v) == [tag |-> "Ok", v |-> v]
Err(m) == [tag |-> "Err", kind |-> "InvalidData", msg |-> m]
Eof == [tag |-> "Err", kind |-> "UnexpectedEof", msg |-> "failed to fill whole buffer"]
Panic(m) == [tag |-> "Panic", msg |-> m]

NoHeader == [tag |-> "NoHeader"]
NoOutcome == [tag |-> "None"]
NoLocals == <<>>
NoCalls == [running |-> 1, waiting |-> <<>>, mixed |-> {}]

----------------------------------------------------------------------------
(* The buffer under the cursor.  Telemetry::next receives into a fresh     *)
(* zero-filled Vec of 2048 bytes, so every byte at or after the received   *)
(* length is 0 there; a direct caller hands over exactly its own bytes.    *)

DataLen == IF entry = "next" THEN size ELSE buf_len

Byte(o) ==
  IF o >= DataLen THEN 0
  ELSE IF o \in DOMAIN patch THEN patch[o]
  ELSE fill

Max(a, b) == IF a >= b THEN a ELSE b

\* a read that is let through with one byte missing
CanRead_one_short(p, n) == p + n <= buf_len + 1

(* A primitive read of n bytes at p succeeds iff n bytes remain.  A read   *)
(* that hits the end has consumed the bytes that were left.                *)
CanRead(p, n) == p + n <= buf_len
EofPos(p) == Max(p, buf_len)

read_u8(p) == Byte(p)
read_i8(p) == IF Byte(p) >= 128 THEN Byte(p) - 256 ELSE Byte(p)
read_u16(p) == Byte(p) + 256 * Byte(p + 1)
read_i16(p) == IF read_u16(p) >= 32768 THEN read_u16(p) - 65536 ELSE read_u16(p)
read_u32(p) == <<read_u16(p + 2), read_u16(p)>>
read_u64(p) == <<read_u16(p + 6), read_u16(p + 4), read_u16(p + 2), read_u16(p)>>
read_f32(p) ==
  [sign |-> Byte(p + 3) \div 128,
   exp  |-> (Byte(p + 3) % 128) * 2 + Byte(p + 2) \div 128,
   mant |-> (Byte(p + 2) % 128) * 65536 + Byte(p + 1) * 256 + Byte(p)]
read_f64(p) ==
  [sign |-> Byte(p + 7) \div 128,
   exp  |-> (Byte(p + 7) % 128) * 16 + Byte(p + 6) \div 16,
   mant |-> <<Byte(p + 6) % 16, read_u16(p + 4), read_u16(p + 2), read_u16(p)>>]

----------------------------------------------------------------------------
(* std::time::Duration constructors used by the decoders.                  *)
(*                                                                         *)
(* from_secs_f32 / from_secs_f64 panic on a negative, non-finite or too    *)
(* large argument.  A Duration is kept as whole seconds plus milliseconds  *)
(* of the second begun (as_secs, as_millis - 1000 * as_secs); below one    *)
(* millisecond the result depends on the rounding of the toolchain and is  *)
(* not kept.                                                               *)

\* floor(n * 1000 / 2^k) for 0 <= n < 2^24, without leaving 32 bits
MillisOf(n, k) ==
  IF k <= 12 THEN (n * 1000) \div (2 ^ k)
  ELSE IF k > 36 THEN 0
  ELSE (((n \div 4096) * 1000) + (((n % 4096) * 1000) \div 4096)) \div (2 ^ (k - 12))

from_secs_f32(f) ==
  IF f.exp = 255 THEN Panic("can not convert float seconds to Duration: value is either too big or NaN")
  ELSE IF f.sign = 1 /\ (f.exp # 0 \/ f.mant # 0)
    THEN Panic("can not convert float seconds to Duration: value is negative")
  ELSE IF f.exp >= 127 + 64
    THEN Panic("can not convert float seconds to Duration: value is either too big or NaN")
  ELSE IF f.exp = 0 THEN Ok([secs |-> 0, subsec_millis |-> 0])
  ELSE LET m == 8388608 + f.mant
           e == f.exp - 127
       IN  IF e < 0 THEN Ok([secs |-> 0, subsec_millis |-> MillisOf(m, 23 - e)])
           ELSE IF e <= 23
             THEN Ok([secs |-> m \div (2 ^ (23 - e)),
                      subsec_millis |-> MillisOf(m % (2 ^ (23 - e)), 23 - e)])
           ELSE IF e <= 30 THEN Ok([secs |-> m * (2 ^ (e - 23)), subsec_millis |-> 0])
           ELSE Ok([secs_mant |-> m, secs_shift |-> e - 23, subsec_millis |-> 0])

from_secs_f64(f) ==
  IF f.exp = 2047 THEN Panic("can not convert float seconds to Duration: value is either too big or NaN")
  ELSE IF f.sign = 1 /\ (f.exp # 0 \/ f.mant # <<0, 0, 0, 0>>)
    THEN Panic("can not convert float seconds to Duration: value is negative")
  ELSE IF f.exp >= 1023 + 64
    THEN Panic("can not convert float seconds to Duration: value is either too big or NaN")
  ELSE IF f.exp = 0 THEN Ok([secs |-> 0, subsec_millis |-> 0])
  ELSE Ok([secs_mant |-> <<16 + f.mant[1], f.mant[2], f.mant[3], f.mant[4]>>,
           secs_shift |-> f.exp - 1023 - 52])

from_millis(n) == [secs |-> n \div 1000, subsec_millis |-> n % 1000]
from_secs(n) == [secs |-> n, subsec_millis |-> 0]

----------------------------------------------------------------------------
(* Integer code -> variant tables *)

parse_traction_control(value) ==
  CASE value = 0 -> Ok("Off")
    [] value = 1 -> Ok("Low")
    [] value = 2 -> Ok("High")
    [] OTHER -> Err("Traction control invalid")

parse_fuel_mix(value) ==
  CASE value = 0 -> Ok("Lean")
    [] value = 1 -> Ok("Standard")
    [] value = 2 -> Ok("Rich")
    [] value = 3 -> Ok("Max")
    [] OTHER -> Err("Fuel mix invalid")

parse_drs(value) ==
  CASE value = 0 -> Ok("NotAllowed")
    [] value = 1 -> Ok("Allowed")
    [] value = -1 -> Ok("Unknown")
    [] OTHER -> Err("DRS status invalid")

parse_ers_deployment_mode(value) ==
  CASE value = 0 -> Ok("None")
    [] value = 1 -> Ok("Medium")
    [] value = 2 -> Ok("Overtake")
    [] value = 3 -> Ok("Hotlap")
    [] OTHER -> Err("ERS Deployment mode invalid")

parse_actual_tyre_compound(value) ==
  CASE value = 16 -> Ok("C5")
    [] value = 17 -> Ok("C4")
    [] value = 18 -> Ok("C3")
    [] value = 19 -> Ok("C2")
    [] value = 20 -> Ok("C1")
    [] value = 7 -> Ok("Inter")
    [] value = 8 -> Ok("Wet")
    [] value = 9 -> Ok("F1ClassicDry")
    [] value = 10 -> Ok("F1ClassicWet")
    [] value = 11 -> Ok("F2SuperSoft")
    [] value = 12 -> Ok("F2Soft")
    [] value = 13 -> Ok("F2Medium")
    [] value = 14 -> Ok("F2Hard")
    [] value = 15 -> Ok("F2Wet")
    [] value = 0 -> Ok("Unknown")
    [] value = 255 -> Ok("Unknown")
    [] OTHER -> Err("Tyre compound invalid")

parse_visual_tyre_compound(value) ==
  CASE value = 16 -> Ok("Soft")
    [] value = 17 -> Ok("Medium")
    [] value = 18 -> Ok("Hard")
    [] value = 7 -> Ok("Inter")
    [] value = 8 -> Ok("Wet")
    [] value = 9 -> Ok("F1ClassicDry")
    [] value = 10 -> Ok("F1ClassicWet")
    [] value = 11 -> Ok("F2SuperSoft")
    [] value = 12 -> Ok("F2Soft")
    [] value = 13 -> Ok("F2Medium")
    [] value = 14 -> Ok("F2Hard")
    [] value = 15 -> Ok("F2Wet")
    [] value = 0 -> Ok("Unknown")
    [] OTHER -> Err("Tyre compound visual invalid")

parse_anti_lock_brakes(value) ==
  CASE value = 0 -> Ok("Off")
    [] value = 1 -> Ok("On")
    [] OTHER -> Err("Anti lock brakes invalid")

parse_surface_type(value) ==
  CASE value = 0 -> Ok("Tarmac")
    [] value = 1 -> Ok("RumbleStrip")
    [] value = 2 -> Ok("Concrete")
    [] value = 3 -> Ok("Rock")
    [] value = 4 -> Ok("Gravel")
    [] value = 5 -> Ok("Mud")
    [] value = 6 -> Ok("Sand")
    [] value = 7 -> Ok("Grass")
    [] value = 8 -> Ok("Water")
    [] value = 9 -> Ok("Cobblestone")
    [] value = 10 -> Ok("Metal")
    [] value = 11 -> Ok("Ridged")
    [] value = 12 -> Ok("Unknown")
    [] OTHER -> Err("Surface type invalid")

parse_mfd_panel(value) ==
  CASE value = 0 -> Ok("CarSetup")
    [] value = 1 -> Ok("Pits")
    [] value = 2 -> Ok("Damage")
    [] value = 3 -> Ok("Engine")
    [] value = 4 -> Ok("Temperatures")
    [] value = 255 -> Ok("Closed")
    [] OTHER -> Err("MFD panel index invalid")

parse_penalty_type(value) ==
  CASE value = 0 -> Ok("DriveThrough")
    [] value = 1 -> Ok("StopGo")
    [] value = 2 -> Ok("GridPenalty")
    [] value = 3 -> Ok("PenaltyReminder")
    [] value = 4 -> Ok("TimePenalty")
    [] value = 5 -> Ok("Warning")
    [] value = 6 -> Ok("Disqualified")
    [] value = 7 -> Ok("RemovedFromFormationLap")
    [] value = 8 -> Ok("ParkedTooLongTimer")
    [] value = 9 -> Ok("TyreRegulations")
    [] value = 10 -> Ok("ThisLapInvalidated")
    [] value = 11 -> Ok("ThisAndNextLapInvalidated")
    [] value = 12 -> Ok("ThisLapInvalidatedWithoutReason")
    [] value = 13 -> Ok("ThisAndNextLapInvalidatedWithoutReason")
    [] value = 14 -> Ok("ThisAndPreviousLapInvalidated")
    [] value = 15 -> Ok("ThisAndPreviousLapInvalidatedWithoutReason")
    [] value = 16 -> Ok("Retired")
    [] value = 17 -> Ok("BlackFlagTimer")
    [] OTHER -> Err("Invalid penalty type")

parse_infringement_type(value) ==
  CASE value = 0 -> Ok("BlockingBySlowDriving")
    [] value = 1 -> Ok("BlockingByWrongWayDriving")
    [] value = 2 -> Ok("ReversingOffTheStartLine")
    [] value = 3 -> Ok("BigCollision")
    [] value = 4 -> Ok("SmallCollision")
    [] value = 5 -> Ok("CollisionFailedToHandBackPositionSingle")
    [] value = 6 -> Ok("CollisionFailedToHandBackPositionMultiple")
    [] value = 7 -> Ok("CornerCuttingGainedTime")
    [] value = 8 -> Ok("CornerCuttingOvertakeSingle")
    [] value = 9 -> Ok("CornerCuttingOvertakeMultiple")
    [] value = 10 -> Ok("CrossedPitExitLane")
    [] value = 11 -> Ok("IgnoringBlueFlags")
    [] value = 12 -> Ok("IgnoringYellowFlags")
    [] value = 13 -> Ok("IgnoringDriveThrough")
    [] value = 14 -> Ok("TooManyDriveThroughs")
    [] value = 15 -> Ok("DriveThroughReminderServeWithinNLaps")
    [] value = 16 -> Ok("DriveThroughReminderServeThisLap")
    [] value = 17 -> Ok("PitLaneSpeeding")
    [] value = 18 -> Ok("ParkedForTooLong")
    [] value = 19 -> Ok("IgnoringTyreRegulations")
    [] value = 20 -> Ok("TooManyPenalties")
    [] value = 21 -> Ok("MultipleWarnings")
    [] value = 22 -> Ok("ApproachingDisqualification")
    [] value = 23 -> Ok("TyreRegulationsSelectSingle")
    [] value = 24 -> Ok("TyreRegulationsSelectMultiple")
    [] value = 25 -> Ok("LapInvalidatedCornerCutting")
    [] value = 26 -> Ok("LapInvalidatedRunningWide")
    [] value = 27 -> Ok("CornerCuttingRanWideGainedTimeMinor")
    [] value = 28 -> Ok("CornerCuttingRanWideGainedTimeSignificant")
    [] value = 29 -> Ok("CornerCuttingRanWideGainedTimeExtreme")
    [] value = 30 -> Ok("LapInvalidatedWallRiding")
    [] value = 31 -> Ok("LapInvalidatedFlashbackUsed")
    [] value = 32 -> Ok("LapInvalidatedResetToTrack")
    [] value = 33 -> Ok("BlockingThePitlane")
    [] value = 34 -> Ok("JumpStart")
    [] value = 35 -> Ok("SafetyCarToCarCollision")
    [] value = 36 -> Ok("SafetyCarIllegalOvertake")
    [] value = 37 -> Ok("SafetyCarExceedingAllowedPace")
    [] value = 38 -> Ok("VirtualSafetyCarExceedingAllowedPace")
    [] value = 39 -> Ok("FormationLapBelowAllowedSpeed")
    [] value = 40 -> Ok("RetiredMechanicalFailure")
    [] value = 41 -> Ok("RetiredTerminallyDamaged")
    [] value = 42 -> Ok("SafetyCarFallingTooFarBack")
    [] value = 43 -> Ok("BlackFlagTimer")
    [] value = 44 -> Ok("UnservedStopGoPenalty")
    [] value = 45 -> Ok("UnservedDriveThroughPenalty")
    [] value = 46 -> Ok("EngineComponentChange")
    [] value = 47 -> Ok("GearboxChange")
    [] value = 48 -> Ok("LeagueGridPenalty")
    [] value = 49 -> Ok("RetryPenalty")
    [] value = 50 -> Ok("IllegalTimeGain")
    [] value = 51 -> Ok("MandatoryPitstop")
    [] OTHER -> Err("Invalid infringement type")

parse_pit_status(value) ==
  CASE value = 0 -> Ok("None")
    [] value = 1 -> Ok("Pitting")
    [] value = 2 -> Ok("PitArea")
    [] OTHER -> Err("Invalid pit status")

parse_driver_status(value) ==
  CASE value = 0 -> Ok("Garage")
    [] value = 1 -> Ok("FlyingLap")
    [] value = 2 -> Ok("InLap")
    [] value = 3 -> Ok("OutLap")
    [] value = 4 -> Ok("OnTrack")
    [] OTHER -> Err("Invalid driver status")

parse_result_status(value) ==
  CASE value = 0 -> Ok("Invalid")
    [] value = 1 -> Ok("Inactive")
    [] value = 2 -> Ok("Active")
    [] value = 3 -> Ok("Finished")
    [] value = 4 -> Ok("Disqualified")
    [] value = 5 -> Ok("NotClassified")
    [] value = 6 -> Ok("Retired")
    [] OTHER -> Err("Invalid result status")

parse_ready_status(value) ==
  CASE value = 0 -> Ok("NotReady")
    [] value = 1 -> Ok("Ready")
    [] value = 2 -> Ok("Spectating")
    [] OTHER -> Err("Ready status invalid")

parse_your_telemetry(value) ==
  CASE value = 0 -> Ok("Restricted")
    [] value = 1 -> Ok("Public")
    [] OTHER -> Err("Invalid telemetry")

parse_driver(value) ==
  CASE value = 0 -> Ok("CarlosSainz")
    [] value = 1 -> Ok("DaniilKvyat")
    [] value = 2 -> Ok("DanielRicciardo")
    [] value = 6 -> Ok("KimiRaikkonen")
    [] value = 7 -> Ok("LewisHamilton")
    [] value = 9 -> Ok("MaxVerstappen")
    [] value = 10 -> Ok("NicoHulkenburg")
    [] value = 11 -> Ok("KevinMagnussen")
    [] value = 12 -> Ok("RomainGrosjean")
    [] value = 13 -> Ok("SebastianVettel")
    [] value = 14 -> Ok("SergioPerez")
    [] value = 15 -> Ok("ValtteriBottas")
    [] value = 17 -> Ok("EstebanOcon")
    [] value = 19 -> Ok("LanceStroll")
    [] value = 20 -> Ok("ArronBarnes")
    [] value = 21 -> Ok("MartinGiles")
    [] value = 22 -> Ok("AlexMurray")
    [] value = 23 -> Ok("LucasRoth")
    [] value = 24 -> Ok("IgorCorreia")
    [] value = 25 -> Ok("SophieLevasseur")
    [] value = 26 -> Ok("JonasSchiffer")
    [] value = 27 -> Ok("AlainForest")
    [] value = 28 -> Ok("JayLetourneau")
    [] value = 29 -> Ok("EstoSaari")
    [] value = 30 -> Ok("YasarAtiyeh")
    [] value = 31 -> Ok("CallistoCalabresi")
    [] value = 32 -> Ok("NaotaIzum")
    [] value = 33 -> Ok("HowardClarke")
    [] value = 34 -> Ok("WilhelmKaufmann")
    [] value = 35 -> Ok("MarieLaursen")
    [] value = 36 -> Ok("FlavioNieves")
    [] value = 37 -> Ok("PeterBelousov")
    [] value = 38 -> Ok("KlimekMichalski")
    [] value = 39 -> Ok("SantiagoMoreno")
    [] value = 40 -> Ok("BenjaminCoppens")
    [] value = 41 -> Ok("NoahVisser")
    [] value = 42 -> Ok("GertWaldmuller")
    [] value = 43 -> Ok("JulianQuesada")
    [] value = 44 -> Ok("DanielJones")
    [] value = 45 -> Ok("ArtemMarkelov")
    [] value = 46 -> Ok("TadasukeMakino")
    [] value = 47 -> Ok("SeanGelael")
    [] value = 48 -> Ok("NyckDeVries")
    [] value = 49 -> Ok("JackAitken")
    [] value = 50 -> Ok("GeorgeRussell")
    [] value = 51 -> Ok("MaximilianGunther")
    [] value = 52 -> Ok("NireiFukuzumi")
    [] value = 53 -> Ok("LucaGhiotto")
    [] value = 54 -> Ok("LandoNorris")
    [] value = 55 -> Ok("SergioSetteCamara")
    [] value = 56 -> Ok("LouisDeletraz")
    [] value = 57 -> Ok("AntonioFuoco")
    [] value = 58 -> Ok("CharlesLeclerc")
    [] value = 59 -> Ok("PierreGasly")
    [] value = 62 -> Ok("AlexanderAlbon")
    [] value = 63 -> Ok("NicholasLatifi")
    [] value = 64 -> Ok("DorianBoccolacci")
    [] value = 65 -> Ok("NikoKari")
    [] value = 66 -> Ok("RobertoMerhi")
    [] value = 67 -> Ok("ArjunMaini")
    [] value = 68 -> Ok("AlessioLorandi")
    [] value = 69 -> Ok("RubenMeijer")
    [] value = 70 -> Ok("RashidNair")
    [] value = 71 -> Ok("JackTremblay")
    [] value = 74 -> Ok("AntonioGiovinazzi")
    [] value = 75 -> Ok("RobertKubica")
    [] value = 78 -> Ok("NobuharuMatsushita")
    [] value = 79 -> Ok("NikitaMazepin")
    [] value = 80 -> Ok("GuanyaZhou")
    [] value = 81 -> Ok("MickSchumacher")
    [] value = 82 -> Ok("CallumIlott")
    [] value = 83 -> Ok("JuanManuelCorrea")
    [] value = 84 -> Ok("JordanKing")
    [] value = 85 -> Ok("MahaveerRaghunathan")
    [] value = 86 -> Ok("TatianaCalderon")
    [] value = 87 -> Ok("AnthoineHubert")
    [] value = 88 -> Ok("GuilianoAlesi")
    [] value = 89 -> Ok("RalphBoschung")
    [] value = 100 -> Ok("Player")
    [] OTHER -> Err("Invalid driver")

parse_team(value) ==
  CASE value = 0 -> Ok("Mercedes")
    [] value = 1 -> Ok("Ferrari")
    [] value = 2 -> Ok("RedBullRacing")
    [] value = 3 -> Ok("Williams")
    [] value = 4 -> Ok("RacingPoint")
    [] value = 5 -> Ok("Renault")
    [] value = 6 -> Ok("AlphaTauri")
    [] value = 7 -> Ok("Haas")
    [] value = 8 -> Ok("McLaren")
    [] value = 9 -> Ok("AlfaRomeo")
    [] value = 10 -> Ok("McLaren1988")
    [] value = 11 -> Ok("McLaren1991")
    [] value = 12 -> Ok("Williams1992")
    [] value = 13 -> Ok("Ferrari1995")
    [] value = 14 -> Ok("Williams1996")
    [] value = 15 -> Ok("McLaren1998")
    [] value = 16 -> Ok("Ferrari2002")
    [] value = 17 -> Ok("Ferrari2004")
    [] value = 18 -> Ok("Renault2006")
    [] value = 19 -> Ok("Ferrari2007")
    [] value = 20 -> Ok("McLaren2008")
    [] value = 21 -> Ok("RedBull2010")
    [] value = 22 -> Ok("Ferrari1976")
    [] value = 23 -> Ok("ARTGrandPrix")
    [] value = 24 -> Ok("CamposVexatecRacing")
    [] value = 25 -> Ok("Carlin")
    [] value = 26 -> Ok("CharouzRacingSystem")
    [] value = 27 -> Ok("DAMS")
    [] value = 28 -> Ok("RussianTime")
    [] value = 29 -> Ok("MPMotorsport")
    [] value = 30 -> Ok("Pertamina")
    [] value = 31 -> Ok("McLaren1990")
    [] value = 32 -> Ok("Trident")
    [] value = 33 -> Ok("BWTArden")
    [] value = 34 -> Ok("McLaren1976")
    [] value = 35 -> Ok("Lotus1972")
    [] value = 36 -> Ok("Ferrari1979")
    [] value = 37 -> Ok("McLaren1982")
    [] value = 38 -> Ok("Williams2003")
    [] value = 39 -> Ok("Brawn2009")
    [] value = 40 -> Ok("Lotus1978")
    [] value = 41 -> Ok("F1GenericCar")
    [] value = 42 -> Ok("ArtGP2019")
    [] value = 43 -> Ok("Campos2019")
    [] value = 44 -> Ok("Carlin2019")
    [] value = 45 -> Ok("SauberJuniorCharouz2019")
    [] value = 46 -> Ok("Dams2019")
    [] value = 47 -> Ok("UniVirtuosi2019")
    [] value = 48 -> Ok("MPMotorsport2019")
    [] value = 49 -> Ok("Prema2019")
    [] value = 50 -> Ok("Trident2019")
    [] value = 51 -> Ok("Arden2019")
    [] value = 53 -> Ok("Benetton1994")
    [] value = 54 -> Ok("Benetton1995")
    [] value = 55 -> Ok("Ferrari2000")
    [] value = 56 -> Ok("Jordan1991")
    [] value = 255 -> Ok("MyTeam")
    [] OTHER -> Err("Invalid team")

\* parse_nationality with a catch-all arm in place of the table
parse_nationality_catch_all(value) ==
  IF value \in (0..88) \cup {255} THEN Ok("Invalid") ELSE Err("Invalid nationality")

parse_nationality(value) ==
  CASE value = 1 -> Ok("American")
    [] value = 2 -> Ok("Argentinean")
    [] value = 3 -> Ok("Australian")
    [] value = 4 -> Ok("Austrian")
    [] value = 5 -> Ok("Azerbaijani")
    [] value = 6 -> Ok("Bahraini")
    [] value = 7 -> Ok("Belgian")
    [] value = 8 -> Ok("Bolivian")
    [] value = 9 -> Ok("Brazilian")
    [] value = 10 -> Ok("British")
    [] value = 11 -> Ok("Bulgarian")
    [] value = 12 -> Ok("Cameroonian")
    [] value = 13 -> Ok("Canadian")
    [] value = 14 -> Ok("Chilean")
    [] value = 15 -> Ok("Chinese")
    [] value = 16 -> Ok("Colombian")
    [] value = 17 -> Ok("CostaRican")
    [] value = 18 -> Ok("Croatian")
    [] value = 19 -> Ok("Cypriot")
    [] value = 20 -> Ok("Czech")
    [] value = 21 -> Ok("Danish")
    [] value = 22 -> Ok("Dutch")
    [] value = 23 -> Ok("Ecuadorian")
    [] value = 24 -> Ok("English")
    [] value = 25 -> Ok("Emirian")
    [] value = 26 -> Ok("Estonian")
    [] value = 27 -> Ok("Finnish")
    [] value = 28 -> Ok("French")
    [] value = 29 -> Ok("German")
    [] value = 30 -> Ok("Ghanaian")
    [] value = 31 -> Ok("Greek")
    [] value = 32 -> Ok("Guatemalan")
    [] value = 33 -> Ok("Honduran")
    [] value = 34 -> Ok("HongKonger")
    [] value = 35 -> Ok("Hungarian")
    [] value = 36 -> Ok("Icelander")
    [] value = 37 -> Ok("Indian")
    [] value = 38 -> Ok("Indonesian")
    [] value = 39 -> Ok("Irish")
    [] value = 40 -> Ok("Israeli")
    [] value = 41 -> Ok("Italian")
    [] value = 42 -> Ok("Jamaican")
    [] value = 43 -> Ok("Japanese")
    [] value = 44 -> Ok("Jordanian")
    [] value = 45 -> Ok("Kuwaiti")
    [] value = 46 -> Ok("Latvian")
    [] value = 47 -> Ok("Lebanese")
    [] value = 48 -> Ok("Lithuanian")
    [] value = 49 -> Ok("Luxembourger")
    [] value = 50 -> Ok("Malaysian")
    [] value = 51 -> Ok("Maltese")
    [] value = 52 -> Ok("Mexican")
    [] value = 53 -> Ok("Monegasque")
    [] value = 54 -> Ok("NewZealander")
    [] value = 55 -> Ok("Nicaraguan")
    [] value = 56 -> Ok("NorthKorean")
    [] value = 57 -> Ok("NorthernIrish")
    [] value = 58 -> Ok("Norwegian")
    [] value = 59 -> Ok("Omani")
    [] value = 60 -> Ok("Pakistani")
    [] value = 61 -> Ok("Panamanian")
    [] value = 62 -> Ok("Paraguayan")
    [] value = 63 -> Ok("Peruvian")
    [] value = 64 -> Ok("Polish")
    [] value = 65 -> Ok("Portuguese")
    [] value = 66 -> Ok("Qatari")
    [] value = 67 -> Ok("Romanian")
    [] value = 68 -> Ok("Russian")
    [] value = 69 -> Ok("Salvadoran")
    [] value = 70 -> Ok("Saudi")
    [] value = 71 -> Ok("Scottish")
    [] value = 72 -> Ok("Serbian")
    [] value = 73 -> Ok("Singaporean")
    [] value = 74 -> Ok("Slovakian")
    [] value = 75 -> Ok("Slovenian")
    [] value = 76 -> Ok("SouthKorean")
    [] value = 77 -> Ok("SouthAfrican")
    [] value = 78 -> Ok("Spanish")
    [] value = 79 -> Ok("Swedish")
    [] value = 80 -> Ok("Swiss")
    [] value = 81 -> Ok("Thai")
    [] value = 82 -> Ok("Turkish")
    [] value = 83 -> Ok("Uruguayan")
    [] value = 84 -> Ok("Ukrainian")
    [] value = 85 -> Ok("Venezuelan")
    [] value = 86 -> Ok("Welsh")
    [] value = 87 -> Ok("Barbadian")
    [] value = 88 -> Ok("Vietnamese")
    [] value = 0 -> Ok("Invalid")
    [] value = 255 -> Ok("Invalid")
    [] OTHER -> Err("Invalid nationality")

parse_weather(value) ==
  CASE value = 0 -> Ok("Clear")
    [] value = 1 -> Ok("LightCloud")
    [] value = 2 -> Ok("Overcast")
    [] value = 3 -> Ok("LightRain")
    [] value = 4 -> Ok("HeavyRain")
    [] value = 5 -> Ok("Storm")
    [] OTHER -> Err("Invalid weather")

parse_session_type(value) ==
  CASE value = 0 -> Ok("Unknown")
    [] value = 1 -> Ok("P1")
    [] value = 2 -> Ok("P2")
    [] value = 3 -> Ok("P3")
    [] value = 4 -> Ok("ShortP")
    [] value = 5 -> Ok("Q1")
    [] value = 6 -> Ok("Q2")
    [] value = 7 -> Ok("Q3")
    [] value = 8 -> Ok("ShortQ")
    [] value = 9 -> Ok("ShortQ")
    [] value = 10 -> Ok("R")
    [] value = 11 -> Ok("R2")
    [] value = 12 -> Ok("TimeTrial")
    [] OTHER -> Err("Invalid session type")

parse_track(value) ==
  CASE value = -1 -> Ok("Unknown")
    [] value = 0 -> Ok("Melbourne")
    [] value = 1 -> Ok("PaulRicard")
    [] value = 2 -> Ok("Shanghai")
    [] value = 3 -> Ok("Sakhir")
    [] value = 4 -> Ok("Catalunya")
    [] value = 5 -> Ok("Monaco")
    [] value = 6 -> Ok("Montreal")
    [] value = 7 -> Ok("Silverstone")
    [] value = 8 -> Ok("Hockenheim")
    [] value = 9 -> Ok("Hungaroring")
    [] value = 10 -> Ok("Spa")
    [] value = 11 -> Ok("Monza")
    [] value = 12 -> Ok("Singapore")
    [] value = 13 -> Ok("Suzuka")
    [] value = 14 -> Ok("AbuDhabi")
    [] value = 15 -> Ok("Texas")
    [] value = 16 -> Ok("Brazil")
    [] value = 17 -> Ok("Austria")
    [] value = 18 -> Ok("Sochi")
    [] value = 19 -> Ok("Mexico")
    [] value = 20 -> Ok("Baku")
    [] value = 21 -> Ok("SakhirShort")
    [] value = 22 -> Ok("SilverstoneShort")
    [] value = 23 -> Ok("TexasShort")
    [] value = 24 -> Ok("SuzukaShort")
    [] value = 25 -> Ok("Hanoi")
    [] value = 26 -> Ok("Zandvoort")
    [] OTHER -> Err("Invalid track")

parse_formula(value) ==
  CASE value = 0 -> Ok("F1Modern")
    [] value = 1 -> Ok("F1Classic")
    [] value = 2 -> Ok("F2")
    [] value = 3 -> Ok("F1Generic")
    [] OTHER -> Err("Invalid formula type")

parse_flag(value) ==
  CASE value = -1 -> Ok("Unknown")
    [] value = 0 -> Ok("None")
    [] value = 1 -> Ok("Green")
    [] value = 2 -> Ok("Blue")
    [] value = 3 -> Ok("Yellow")
    [] value = 4 -> Ok("Red")
    [] OTHER -> Err("Invalid zone flag")

parse_safety_car(value) ==
  CASE value = 0 -> Ok("None")
    [] value = 1 -> Ok("Full")
    [] value = 2 -> Ok("Virtual")
    [] OTHER -> Err("Invalid safety car")

parse_network_game(value) ==
  CASE value = 0 -> Ok("Offline")
    [] value = 1 -> Ok("Online")
    [] OTHER -> Err("Invalid network game")

----------------------------------------------------------------------------
(* Enums declared with explicit discriminants (`Variant = n`): the integer *)
(* a variant converts to with `as`.                                        *)

MFDPanel ==
  [CarSetup |-> 0, Pits |-> 1, Damage |-> 2, Engine |-> 3, Temperatures |-> 4, Closed |-> 255]
FuelMix == [Lean |-> 0, Standard |-> 1, Rich |-> 2, Max |-> 3]
DRSStatus == [NotAllowed |-> 0, Allowed |-> 1, Unknown |-> 2]
ERSDeploymentMode ==
  [None |-> 0, Low |-> 1, Medium |-> 2, High |-> 3, Overtake |-> 4, Hotlap |-> 5]
ZoneFlag == [Unknown |-> -1, None |-> 0, Green |-> 1, Blue |-> 2, Yellow |-> 3, Red |-> 4]

----------------------------------------------------------------------------
(* Field readers.  A layout is a sequence of <<name, type>> in the order   *)
(* the decoder reads them; a type is a primitive, a Duration conversion,   *)
(* a name slot or the validator of a coded field.                          *)

EnumsU8 == {"parse_weather", "parse_session_type", "parse_formula", "parse_safety_car",
            "parse_network_game", "parse_pit_status", "parse_driver_status",
            "parse_result_status", "parse_driver", "parse_team", "parse_nationality",
            "parse_your_telemetry", "parse_surface_type", "parse_mfd_panel",
            "parse_traction_control", "parse_anti_lock_brakes", "parse_fuel_mix",
            "parse_ers_deployment_mode", "parse_actual_tyre_compound",
            "parse_visual_tyre_compound", "parse_ready_status", "parse_penalty_type",
            "parse_infringement_type"}
EnumsI8 == {"parse_track", "parse_flag", "parse_drs"}

Validate(ty, value) ==
  CASE ty = "parse_weather" -> parse_weather(value)
    [] ty = "parse_session_type" -> parse_session_type(value)
    [] ty = "parse_formula" -> parse_formula(value)
    [] ty = "parse_safety_car" -> parse_safety_car(value)
    [] ty = "parse_network_game" -> parse_network_game(value)
    [] ty = "parse_pit_status" -> parse_pit_status(value)
    [] ty = "parse_driver_status" -> parse_driver_status(value)
    [] ty = "parse_result_status" -> parse_result_status(value)
    [] ty = "parse_driver" -> parse_driver(value)
    [] ty = "parse_team" -> parse_team(value)
    [] ty = "parse_nationality" -> parse_nationality(value)
    [] ty = "parse_your_telemetry" -> parse_your_telemetry(value)
    [] ty = "parse_surface_type" -> parse_surface_type(value)
    [] ty = "parse_mfd_panel" -> parse_mfd_panel(value)
    [] ty = "parse_traction_control" -> parse_traction_control(value)
    [] ty = "parse_anti_lock_brakes" -> parse_anti_lock_brakes(value)
    [] ty = "parse_fuel_mix" -> parse_fuel_mix(value)
    [] ty = "parse_ers_deployment_mode" -> parse_ers_deployment_mode(value)
    [] ty = "parse_actual_tyre_compound" -> parse_actual_tyre_compound(value)
    [] ty = "parse_visual_tyre_compound" -> parse_visual_tyre_compound(value)
    [] ty = "parse_ready_status" -> parse_ready_status(value)
    [] ty = "parse_penalty_type" -> parse_penalty_type(value)
    [] ty = "parse_infringement_type" -> parse_infringement_type(value)
    [] ty = "parse_track" -> parse_track(value)
    [] ty = "parse_flag" -> parse_flag(value)
    [] ty = "parse_drs" -> parse_drs(value)

\* widths in which a flag takes two bytes
Width_wide_bool(ty) ==
  CASE ty \in {"u8", "i8", "secs_u8"} \cup EnumsU8 \cup EnumsI8 -> 1
    [] ty \in {"u16", "i16", "millis_u16", "bool"} -> 2
    [] ty \in {"u32", "f32", "secs_f32"} -> 4
    [] ty \in {"u64", "f64", "secs_f64"} -> 8
    [] ty \in {"parse_name", "chars48"} -> NAME_LEN

Width(ty) ==
  CASE ty \in {"u8", "i8", "bool", "secs_u8"} \cup EnumsU8 \cup EnumsI8 -> 1
    [] ty \in {"u16", "i16", "millis_u16"} -> 2
    [] ty \in {"u32", "f32", "secs_f32"} -> 4
    [] ty \in {"u64", "f64", "secs_f64"} -> 8
    [] ty \in {"parse_name", "chars48"} -> NAME_LEN

(* parse_name: bytes of the slot before the first null among those the     *)
(* buffer holds; the loop reads byte by byte, so it ends in an error only  *)
(* when the buffer ends before a null and before 48 bytes.                 *)
RECURSIVE NameLetters(_, _, _)
NameLetters(p, i, letters) ==
  IF i = NAME_LEN THEN Ok(letters)
  ELSE IF ~CanRead(p + i, 1) THEN Eof
  ELSE IF read_u8(p + i) = 0 THEN Ok(letters)
  ELSE NameLetters(p, i + 1, Append(letters, read_u8(p + i)))

\* a name decoder that leaves the cursor just after the null it stopped at
parse_name_stop_at_null(p) ==
  LET Then(r) ==
        IF r.tag = "Ok"
          THEN [tag |-> "Ok", v |-> r.v,
                pos |-> IF Len(r.v) < NAME_LEN THEN p + Len(r.v) + 1 ELSE p + NAME_LEN]
        ELSE [tag |-> "Err", kind |-> r.kind, msg |-> r.msg, pos |-> EofPos(p)]
  IN  Then(NameLetters(p, 0, <<>>))

parse_name(p) ==
  LET r == NameLetters(p, 0, <<>>)
  IN  IF r.tag = "Ok" THEN [tag |-> "Ok", v |-> r.v, pos |-> p + NAME_LEN]
      ELSE [tag |-> "Err", kind |-> r.kind, msg |-> r.msg, pos |-> EofPos(p)]

At(r, p) == [tag |-> "Ok", v |-> r, pos |-> p]
Fail(r, p) ==
  IF r.tag = "Panic" THEN [tag |-> "Panic", msg |-> r.msg, pos |-> p]
  ELSE [tag |-> "Err", kind |-> r.kind, msg |-> r.msg, pos |-> p]
Lift(r, p) == IF r.tag = "Ok" THEN At(r.v, p) ELSE Fail(r, p)

\* a flag that is set by every byte but 0
read_flag_nonzero(p) == read_u8(p) # 0

(* `cursor.byte_order().read_u8().await? == 1`: a flag byte *)
read_flag(p) == read_u8(p) = 1

ReadField(ty, p) ==
  IF ty = "parse_name" THEN parse_name(p)
  ELSE IF ~CanRead(p, Width(ty)) THEN Fail(Eof, EofPos(p))
  ELSE LET q == p + Width(ty) IN
    CASE ty = "u8" -> At(read_u8(p), q)
      [] ty = "i8" -> At(read_i8(p), q)
      [] ty = "u16" -> At(read_u16(p), q)
      [] ty = "i16" -> At(read_i16(p), q)
      [] ty = "u32" -> At(read_u32(p), q)
      [] ty = "u64" -> At(read_u64(p), q)
      [] ty = "f32" -> At(read_f32(p), q)
      [] ty = "f64" -> At(read_f64(p), q)
      [] ty = "bool" -> At(read_flag(p), q)
      [] ty = "secs_f32" -> Lift(from_secs_f32(read_f32(p)), q)
      [] ty = "secs_f64" -> Lift(from_secs_f64(read_f64(p)), q)
      [] ty = "millis_u16" -> At(from_millis(read_u16(p)), q)
      [] ty = "secs_u8" -> At(from_secs(read_u8(p)), q)
      [] ty = "chars48" -> At([i \in 1..NAME_LEN |-> read_u8(p + i - 1)], q)
      [] ty \in EnumsU8 -> Lift(Validate(ty, read_u8(p)), q)
      [] ty \in EnumsI8 -> Lift(Validate(ty, read_i8(p)), q)

\* a reader that reads on after a field failed and reports the last failure
RECURSIVE ParseFields_last_failure(_, _, _, _)
ParseFields_last_failure(layout, i, p, vals) ==
  IF i > Len(layout) THEN [tag |-> "Ok", v |-> vals, pos |-> p]
  ELSE LET Later(r, rest) == IF rest.tag = "Ok" THEN r ELSE rest
           Then(r) ==
             IF r.tag = "Ok"
               THEN ParseFields_last_failure(layout, i + 1, r.pos, Append(vals, r.v))
             ELSE Later(r, ParseFields_last_failure(layout, i + 1, r.pos, Append(vals, 0)))
       IN  Then(ReadField(layout[i][2], p))

(* Reads layout[i..] from p; vals are the values decoded so far.           *)
RECURSIVE ParseFields(_, _, _, _)
ParseFields(layout, i, p, vals) ==
  IF i > Len(layout) THEN [tag |-> "Ok", v |-> vals, pos |-> p]
  ELSE LET Then(r) ==
             IF r.tag = "Ok" THEN ParseFields(layout, i + 1, r.pos, Append(vals, r.v))
             ELSE r
       IN  Then(ReadField(layout[i][2], p))

Names(layout) == {layout[i][1] : i \in 1..Len(layout)}
Struct(layout, vals) ==
  [n \in Names(layout) |-> vals[CHOOSE i \in 1..Len(layout) : layout[i][1] = n]]

ParseStruct(layout, p) ==
  LET Then(r) == IF r.tag = "Ok" THEN At(Struct(layout, r.v), r.pos) ELSE r
  IN  Then(ParseFields(layout, 1, p, <<>>))

Wheel(name, ty) ==
  << <<name \o ".rear_left", ty>>, <<name \o ".rear_right", ty>>,
     <<name \o ".front_left", ty>>, <<name \o ".front_right", ty>> >>

Repeat(name, ty, n) == [i \in 1..n |-> <<name \o "[" \o ToString(i - 1) \o "]", ty>>]

----------------------------------------------------------------------------
(* Layouts, in the order of the reads of each function *)

parse_headers_fields ==
  << <<"packet_format", "u16">>, <<"major_version", "u8">>, <<"minor_version", "u8">>,
     <<"packet_version", "u8">>, <<"packet_id", "u8">>, <<"session_uid", "u64">>,
     <<"session_time", "secs_f32">>, <<"frame_identifier", "u32">>,
     <<"player_car_index", "u8">>, <<"secondary_player_car_index", "u8">> >>

parse_car_motion ==
  << <<"world_position_x", "f32">>, <<"world_position_y", "f32">>,
     <<"world_position_z", "f32">>, <<"world_velocity_x", "f32">>,
     <<"world_velocity_y", "f32">>, <<"world_velocity_z", "f32">>,
     <<"world_forward_dir_x", "i16">>, <<"world_forward_dir_y", "i16">>,
     <<"world_forward_dir_z", "i16">>, <<"world_right_dir_x", "i16">>,
     <<"world_right_dir_y", "i16">>, <<"world_right_dir_z", "i16">>,
     <<"g_force_lateral", "f32">>, <<"g_force_longitudinal", "f32">>,
     <<"g_force_vertical", "f32">>, <<"yaw", "f32">>, <<"pitch", "f32">>,
     <<"roll", "f32">> >>

parse_motion_tail ==
  Wheel("suspension_position", "f32") \o Wheel("suspension_velocity", "f32")
  \o Wheel("suspension_acceleration", "f32") \o Wheel("wheel_speed", "f32")
  \o Wheel("wheel_slip", "f32")
  \o << <<"local_velocity_x", "f32">>, <<"local_velocity_y", "f32">>,
        <<"local_velocity_z", "f32">>, <<"angular_velocity_x", "f32">>,
        <<"angular_velocity_y", "f32">>, <<"angular_velocity_z", "f32">>,
        <<"angular_acceleration_x", "f32">>, <<"angular_acceleration_y", "f32">>,
        <<"angular_acceleration_z", "f32">>, <<"front_wheels_angle", "f32">> >>

parse_session_head ==
  << <<"weather", "parse_weather">>, <<"track_temperature", "i8">>,
     <<"air_temperature", "i8">>, <<"total_laps", "u8">>, <<"track_length", "u16">>,
     <<"session_type", "parse_session_type">>, <<"track_id", "parse_track">>,
     <<"formula", "parse_formula">>, <<"session_time_left", "u16">>,
     <<"session_duration", "u16">>, <<"pit_speed_limit", "u8">>,
     <<"game_paused", "u8">>, <<"is_spectating", "u8">>,
     <<"spectator_car_index", "u8">>, <<"sli_pro_native_support", "u8">>,
     <<"num_marshal_zones", "u8">> >>

parse_marshal_zone == << <<"zone_start", "f32">>, <<"zone_flag", "parse_flag">> >>

parse_session_mid ==
  << <<"safety_car_status", "parse_safety_car">>, <<"network_game", "parse_network_game">>,
     <<"num_weather_forecast_samples", "u8">> >>

parse_weather_forecast_sample ==
  << <<"session_type", "parse_session_type">>, <<"time_offset", "u8">>,
     <<"weather", "parse_weather">>, <<"track_temperature", "i8">>,
     <<"air_temperature", "i8">> >>

parse_lap ==
  << <<"last_lap_time", "secs_f32">>, <<"current_lap_time", "secs_f32">>,
     <<"sector_1_time", "millis_u16">>, <<"sector_2_time", "millis_u16">>,
     <<"best_lap_time", "secs_f32">>, <<"best_lap_num", "u8">>,
     <<"best_lap_sector_1_time", "millis_u16">>, <<"best_lap_sector_2_time", "millis_u16">>,
     <<"best_lap_sector_3_time", "millis_u16">>,
     <<"best_overall_sector_1_time", "millis_u16">>,
     <<"best_overall_sector_1_lap_num", "u8">>,
     <<"best_overall_sector_2_time", "millis_u16">>,
     <<"best_overall_sector_2_lap_num", "u8">>,
     <<"best_overall_sector_3_time", "millis_u16">>,
     <<"best_overall_sector_3_lap_num", "u8">>,
     <<"lap_distance", "f32">>, <<"total_distance", "f32">>,
     <<"safety_car_delta", "secs_f32">>, <<"car_position", "u8">>,
     <<"current_lap_num", "u8">>, <<"pit_status", "parse_pit_status">>,
     <<"sector", "u8">>, <<"current_lap_invalid", "bool">>, <<"penalties", "u8">>,
     <<"grid_position", "u8">>, <<"driver_status", "parse_driver_status">>,
     <<"result_status", "parse_result_status">> >>

parse_participant ==
  << <<"ai_controlled", "bool">>, <<"driver", "parse_driver">>, <<"team", "parse_team">>,
     <<"race_number", "u8">>, <<"nationality", "parse_nationality">>,
     <<"name", "parse_name">>, <<"your_telemetry", "parse_your_telemetry">> >>

parse_car_setup ==
  << <<"front_wing", "u8">>, <<"rear_wing", "u8">>, <<"on_throttle", "u8">>,
     <<"off_throttle", "u8">>, <<"front_camber", "f32">>, <<"rear_camber", "f32">>,
     <<"front_toe", "f32">>, <<"rear_toe", "f32">>, <<"front_suspension", "u8">>,
     <<"rear_suspension", "u8">>, <<"front_anti_roll_bar", "u8">>,
     <<"rear_anti_roll_bar", "u8">>, <<"front_suspension_height", "u8">>,
     <<"rear_suspension_height", "u8">>, <<"brake_pressure", "u8">>,
     <<"brake_bias", "u8">>, <<"rear_tyre_pressure.left", "f32">>,
     <<"rear_tyre_pressure.right", "f32">>, <<"front_tyre_pressure.left", "f32">>,
     <<"front_tyre_pressure.right", "f32">>, <<"ballast", "u8">>,
     <<"fuel_load", "f32">> >>

parse_car_telemetry ==
  << <<"speed", "u16">>, <<"throttle", "f32">>, <<"steer", "f32">>, <<"brake", "f32">>,
     <<"clutch", "u8">>, <<"gear", "i8">>, <<"engine_rpm", "u16">>, <<"drs", "bool">>,
     <<"rev_lights_percent", "u8">> >>
  \o Wheel("brakes_temperature", "u16") \o Wheel("tyres_surface_temperature", "u8")
  \o Wheel("tyres_inner_temperature", "u8")
  \o << <<"engine_temperature", "u16">> >>
  \o Wheel("tyre_pressures", "f32") \o Wheel("surface_types", "parse_surface_type")

parse_car_telemetry_tail ==
  << <<"button_status", "u32">>, <<"mfd_panel_index", "parse_mfd_panel">>,
     <<"mfd_panel_index_secondary_player", "parse_mfd_panel">>,
     <<"suggested_gear", "i8">> >>

parse_car_status ==
  << <<"traction_control", "parse_traction_control">>,
     <<"anti_lock_brakes", "parse_anti_lock_brakes">>, <<"fuel_mix", "parse_fuel_mix">>,
     <<"front_brake_bias", "u8">>, <<"pit_limiter", "bool">>, <<"fuel_in_tank", "f32">>,
     <<"fuel_capacity", "f32">>, <<"fuel_remaining_laps", "f32">>, <<"max_rpm", "u16">>,
     <<"idle_rpm", "u16">>, <<"max_gears", "u8">>, <<"drs_allowed", "parse_drs">>,
     <<"drs_activation_distance", "u16">> >>
  \o Wheel("tyres_wear", "u8")
  \o << <<"actual_tyre_compound", "parse_actual_tyre_compound">>,
        <<"visual_tyre_compound", "parse_visual_tyre_compound">>,
        <<"tyres_age_laps", "u8">> >>
  \o Wheel("tyres_damage", "u8")
  \o << <<"front_left_wing_damage", "u8">>, <<"front_right_wing_damage", "u8">>,
        <<"rear_wing_damage", "u8">>, <<"drs_fault", "bool">>, <<"engine_damage", "u8">>,
        <<"gear_box_damage", "u8">>, <<"vehicle_fia_flags", "parse_flag">>,
        <<"ers_store_energy", "f32">>, <<"ers_deploy_mode", "parse_ers_deployment_mode">>,
        <<"ers_harvested_this_lap_mguk", "f32">>, <<"ers_harvested_this_lap_mguh", "f32">>,
        <<"ers_deployed_this_lap", "f32">> >>

parse_final_classification ==
  << <<"position", "u8">>, <<"num_laps", "u8">>, <<"grid_position", "u8">>,
     <<"points", "u8">>, <<"num_pit_stops", "u8">>,
     <<"result_status", "parse_result_status">>, <<"best_lap_time", "secs_f32">>,
     <<"total_race_time", "secs_f64">>, <<"penalties_time", "u8">>,
     <<"num_penalties", "u8">>, <<"num_tyre_stints", "u8">> >>
  \o Repeat("tyre_stints_actual", "parse_actual_tyre_compound", TYRE_STINTS)
  \o Repeat("tyre_stints_visual", "parse_visual_tyre_compound", TYRE_STINTS)

parse_lobby_info ==
  << <<"ai_controlled", "bool">>, <<"team", "parse_team">>,
     <<"nationality", "parse_nationality">>, <<"name", "chars48">>,
     <<"ready_status", "parse_ready_status">> >>

(* parse_event: the fields read after the 4-character code *)
parse_event_fields(code) ==
  CASE code = <<83, 83, 84, 65>> (* "SSTA" *) -> Ok([variant |-> "SessionStarted", fields |-> <<>>])
    [] code = <<83, 69, 78, 68>> (* "SEND" *) -> Ok([variant |-> "SessionEnded", fields |-> <<>>])
    [] code = <<70, 84, 76, 80>> (* "FTLP" *) -> Ok([variant |-> "FastestLap",
         fields |-> << <<"vehicle_index", "u8">>, <<"lap_time", "secs_f32">> >>])
    [] code = <<82, 84, 77, 84>> (* "RTMT" *) -> Ok([variant |-> "Retirement", fields |-> << <<"vehicle_index", "u8">> >>])
    [] code = <<68, 82, 83, 69>> (* "DRSE" *) -> Ok([variant |-> "DRSEnabled", fields |-> <<>>])
    [] code = <<68, 82, 83, 68>> (* "DRSD" *) -> Ok([variant |-> "DRSDisabled", fields |-> <<>>])
    [] code = <<84, 77, 80, 84>> (* "TMPT" *) -> Ok([variant |-> "TeamMateInPits", fields |-> << <<"vehicle_index", "u8">> >>])
    [] code = <<67, 72, 81, 70>> (* "CHQF" *) -> Ok([variant |-> "ChequeredFlag", fields |-> <<>>])
    [] code = <<82, 67, 87, 78>> (* "RCWN" *) -> Ok([variant |-> "RaceWinner", fields |-> << <<"vehicle_index", "u8">> >>])
    [] code = <<80, 69, 78, 65>> (* "PENA" *) -> Ok([variant |-> "Penalty",
         fields |-> << <<"penalty_type", "parse_penalty_type">>,
                       <<"infringement_type", "parse_infringement_type">>,
                       <<"vehicle_index", "u8">>, <<"other_vehicle_index", "u8">>,
                       <<"time", "secs_u8">>, <<"lap_num", "u8">>,
                       <<"places_gained", "u8">> >>])
    [] code = <<83, 80, 84, 80>> (* "SPTP" *) -> Ok([variant |-> "SpeedTrap",
         fields |-> << <<"vehicle_index", "u8">>, <<"speed", "f32">> >>])
    [] OTHER -> Err("Invalid event code")

----------------------------------------------------------------------------
(* Size checks *)

\* a size check that lets a header one byte short through
ensure_header_size_one_short(sz) ==
  IF sz < HEADER_MIN_SIZE - 1 THEN Err("Header size is too small") ELSE Ok(TRUE)

ensure_header_size(sz) ==
  IF sz < HEADER_MIN_SIZE THEN Err("Header size is too small") ELSE Ok(TRUE)

\* the exact-size policy applied to Motion
ensure_motion_size_exact(sz) ==
  IF sz = MOTION_MIN_SIZE THEN Ok(TRUE) ELSE Err("Motion size is too small")

ensure_motion_size(sz) ==
  IF sz < MOTION_MIN_SIZE THEN Err("Motion size is too small") ELSE Ok(TRUE)

\* the minimum-size policy applied to Session
ensure_session_size_at_least(sz) ==
  IF sz < SESSION_MIN_SIZE THEN Err("Session size is too small") ELSE Ok(TRUE)

ensure_session_size(sz) ==
  IF sz = SESSION_MIN_SIZE THEN Ok(TRUE) ELSE Err("Session size is too small")

ensure_lap_data_size(sz) ==
  IF sz < LAP_DATA_MIN_SIZE THEN Err("Lap data size is too small") ELSE Ok(TRUE)

ensure_event_size(sz) ==
  IF sz = EVENT_MIN_SIZE THEN Ok(TRUE) ELSE Err("Event size is too small")

ensure_participants_size(sz) ==
  IF sz < PARTICIPANTS_MIN_SIZE THEN Err("Participants size is too small") ELSE Ok(TRUE)

ensure_car_setup_size(sz) ==
  IF sz = CAR_SETUP_MIN_SIZE THEN Ok(TRUE) ELSE Err("Car setup size is too small")

ensure_car_telemetry_size(sz) ==
  IF sz = CAR_TELEMETRY_MIN_SIZE THEN Ok(TRUE) ELSE Err("Car telemetry size is too small")

ensure_car_status_size(sz) ==
  IF sz = CAR_STATUS_MIN_SIZE THEN Ok(TRUE) ELSE Err("Car status size is too small")

ensure_final_classification_size(sz) ==
  IF sz = FINAL_CLASSIFICATION_MIN_SIZE THEN Ok(TRUE)
  ELSE Err("Final classification size is too small")

ensure_lobby_info_size(sz) ==
  IF sz = LOBBY_INFO_MIN_SIZE THEN Ok(TRUE) ELSE Err("Lobby info size is too small")

----------------------------------------------------------------------------
(* Dispatch *)

\* the table read as if the kinds were numbered from 1
packet_type_from_one(packet_id) ==
  CASE packet_id = 1 -> Ok("Motion")
    [] packet_id = 2 -> Ok("Session")
    [] packet_id = 3 -> Ok("LapData")
    [] packet_id = 4 -> Ok("Event")
    [] packet_id = 5 -> Ok("Participants")
    [] packet_id = 6 -> Ok("CarSetups")
    [] packet_id = 7 -> Ok("CarTelemetry")
    [] packet_id = 8 -> Ok("CarStatus")
    [] packet_id = 9 -> Ok("FinalClassification")
    [] packet_id = 10 -> Ok("LobbyInfo")
    [] OTHER -> Err("Failed to parse packet_type")

packet_type(packet_id) ==
  CASE packet_id = 0 -> Ok("Motion")
    [] packet_id = 1 -> Ok("Session")
    [] packet_id = 2 -> Ok("LapData")
    [] packet_id = 3 -> Ok("Event")
    [] packet_id = 4 -> Ok("Participants")
    [] packet_id = 5 -> Ok("CarSetups")
    [] packet_id = 6 -> Ok("CarTelemetry")
    [] packet_id = 7 -> Ok("CarStatus")
    [] packet_id = 8 -> Ok("FinalClassification")
    [] packet_id = 9 -> Ok("LobbyInfo")
    [] OTHER -> Err("Failed to parse packet_type")

Fields(layout) == [type |-> "fields", layout |-> layout]
Loop(name, layout, n) ==
  [type |-> "for", name |-> name, layout |-> layout, count |-> n, count_local |-> ""]
LoopTo(name, layout, local) ==
  [type |-> "for", name |-> name, layout |-> layout, count |-> 0, count_local |-> local]

(* The per-kind decoders: the function parse_f12020 calls for a PacketID,  *)
(* the Packet2020 variant it wraps the record in, the size check the       *)
(* function starts with and the segments it reads after it.                *)

parse_motion_data(sz) ==
  [variant |-> "Motion", ensure |-> ensure_motion_size(sz),
   body |-> << Loop("motion_data", parse_car_motion, TOTAL_CARS),
               Fields(parse_motion_tail) >>]

\* a Session decoder that reads num_weather_forecast_samples samples
parse_session_counted_samples(sz) ==
  [variant |-> "Session", ensure |-> ensure_session_size(sz),
   body |-> << Fields(parse_session_head),
               LoopTo("marshal_zone", parse_marshal_zone, "num_marshal_zones"),
               Fields(parse_session_mid),
               LoopTo("weather_forecast_sample", parse_weather_forecast_sample,
                      "num_weather_forecast_samples") >>]

\* a Session decoder that always reads MARSHAL_ZONE_MAX zones
parse_session_max_zones(sz) ==
  [variant |-> "Session", ensure |-> ensure_session_size(sz),
   body |-> << Fields(parse_session_head),
               Loop("marshal_zone", parse_marshal_zone, MARSHAL_ZONE_MAX),
               Fields(parse_session_mid),
               Loop("weather_forecast_sample", parse_weather_forecast_sample,
                    WEATHER_FORECAST_SAMPLE_MAX) >>]

parse_session(sz) ==
  [variant |-> "Session", ensure |-> ensure_session_size(sz),
   body |-> << Fields(parse_session_head),
               LoopTo("marshal_zone", parse_marshal_zone, "num_marshal_zones"),
               Fields(parse_session_mid),
               Loop("weather_forecast_sample", parse_weather_forecast_sample,
                    WEATHER_FORECAST_SAMPLE_MAX) >>]

parse_lap_data(sz) ==
  [variant |-> "Lap", ensure |-> ensure_lap_data_size(sz),
   body |-> << Loop("lap_data", parse_lap, TOTAL_CARS) >>]

parse_event_data(sz) ==
  [variant |-> "Event", ensure |-> ensure_event_size(sz),
   body |-> << [type |-> "event"] >>]

\* a Participants decoder that reads num_active_cars entries
parse_participants_data_counted(sz) ==
  [variant |-> "Participants", ensure |-> ensure_participants_size(sz),
   body |-> << Fields(<< <<"num_active_cars", "u8">> >>),
               LoopTo("participants", parse_participant, "num_active_cars") >>]

parse_participants_data(sz) ==
  [variant |-> "Participants", ensure |-> ensure_participants_size(sz),
   body |-> << Fields(<< <<"num_active_cars", "u8">> >>),
               Loop("participants", parse_participant, TOTAL_CARS) >>]

parse_car_setup_data(sz) ==
  [variant |-> "CarSetups", ensure |-> ensure_car_setup_size(sz),
   body |-> << Loop("car_setup_data", parse_car_setup, TOTAL_CARS) >>]

parse_car_telemetry_data(sz) ==
  [variant |-> "CarTelemetry", ensure |-> ensure_car_telemetry_size(sz),
   body |-> << Loop("car_telemetry_data", parse_car_telemetry, TOTAL_CARS),
               Fields(parse_car_telemetry_tail) >>]

parse_car_status_data(sz) ==
  [variant |-> "CarStatus", ensure |-> ensure_car_status_size(sz),
   body |-> << Loop("car_status_data", parse_car_status, TOTAL_CARS) >>]

parse_final_classification_data(sz) ==
  [variant |-> "FinalClassification", ensure |-> ensure_final_classification_size(sz),
   body |-> << Fields(<< <<"num_cars", "u8">> >>),
               Loop("final_classification_data", parse_final_classification, TOTAL_CARS) >>]

parse_lobby_info_data(sz) ==
  [variant |-> "LobbyInfo", ensure |-> ensure_lobby_info_size(sz),
   body |-> << Fields(<< <<"num_players", "u8">> >>),
               Loop("lobby_info_data", parse_lobby_info, TOTAL_CARS) >>]

(* match packet_type(header.packet_id)? { ... } of parse_f12020 *)
parse_f12020(id, sz) ==
  CASE id = "Motion" -> parse_motion_data(sz)
    [] id = "Session" -> parse_session(sz)
    [] id = "LapData" -> parse_lap_data(sz)
    [] id = "Event" -> parse_event_data(sz)
    [] id = "Participants" -> parse_participants_data(sz)
    [] id = "CarSetups" -> parse_car_setup_data(sz)
    [] id = "CarTelemetry" -> parse_car_telemetry_data(sz)
    [] id = "CarStatus" -> parse_car_status_data(sz)
    [] id = "FinalClassification" -> parse_final_classification_data(sz)
    [] id = "LobbyInfo" -> parse_lobby_info_data(sz)

PacketIDs == {"Motion", "Session", "LapData", "Event", "Participants", "CarSetups",
              "CarTelemetry", "CarStatus", "FinalClassification", "LobbyInfo"}

Decoder == parse_f12020(pc, size)
Segment == Decoder.body[seg]
Count(s) == IF s.count_local = "" THEN s.count ELSE acc[s.count_local]

\* an Event decoder that skips the whole 7-byte details area of the packet
parse_event_whole_area(p) ==
  IF ~CanRead(p, 4) THEN Fail(Eof, EofPos(p))
  ELSE LET event_code == <<read_u8(p), read_u8(p + 1), read_u8(p + 2), read_u8(p + 3)>>
           Event(variant, r) ==
             IF r.tag = "Ok" THEN At([variant |-> variant, data |-> r.v], p + 11) ELSE r
           Match(sel) ==
             IF sel.tag # "Ok" THEN Fail(sel, p + 4)
             ELSE Event(sel.v.variant, ParseStruct(sel.v.fields, p + 4))
       IN  Match(parse_event_fields(event_code))

(* parse_event: four bytes read as characters, then the fields of the code *)
parse_event(p) ==
  IF ~CanRead(p, 4) THEN Fail(Eof, EofPos(p))
  ELSE LET event_code == <<read_u8(p), read_u8(p + 1), read_u8(p + 2), read_u8(p + 3)>>
           Event(variant, r) ==
             IF r.tag = "Ok" THEN At([variant |-> variant, data |-> r.v], r.pos) ELSE r
           Match(sel) ==
             IF sel.tag # "Ok" THEN Fail(sel, p + 4)
             ELSE Event(sel.v.variant, ParseStruct(sel.v.fields, p + 4))
       IN  Match(parse_event_fields(event_code))

----------------------------------------------------------------------------
(* Steps of one decode call *)

Returned(r) ==
  IF r.tag = "Panic" THEN Panic(r.msg)
  ELSE [tag |-> "Err", kind |-> r.kind, msg |-> r.msg]

\* the call ends without a record: its locals are dropped
Abort(r) ==
  /\ outcome' = Returned(r)
  /\ pc' = "done"
  /\ seg' = 0
  /\ items' = <<>>
  /\ acc' = NoLocals

\* Telemetry::next after recv_from: the format is read from a clone of the cursor
Telemetry_next ==
  /\ pc = "next"
  /\ IF read_u16(0) = FORMAT_2020
       THEN /\ pc' = "parse_headers"
            /\ UNCHANGED <<seg, items, acc, outcome>>
       ELSE Abort(Panic("not implemented"))
  /\ UNCHANGED <<calls, log, entry, buf_len, size, fill, patch, pos, header>>

parse_headers ==
  /\ pc = "parse_headers"
  /\ \E r \in { IF ensure_header_size(size).tag = "Ok"
                   THEN ParseStruct(parse_headers_fields, pos)
                 ELSE Fail(ensure_header_size(size), pos) } :
         /\ pos' = r.pos
         /\ IF r.tag = "Ok"
              THEN /\ header' = r.v
                   /\ pc' = "packet_type"
                   /\ UNCHANGED <<seg, items, acc, outcome>>
              ELSE /\ Abort(r)
                   /\ UNCHANGED header
  /\ UNCHANGED <<calls, log, entry, buf_len, size, fill, patch>>

dispatch ==
  /\ pc = "packet_type"
  /\ LET r == packet_type(header.packet_id)
     IN  IF r.tag = "Ok"
           THEN /\ pc' = r.v
                /\ seg' = 0
                /\ acc' = [header |-> header]
                /\ UNCHANGED <<items, outcome>>
           ELSE Abort(r)
  /\ UNCHANGED <<calls, log, entry, buf_len, size, fill, patch, pos, header>>

ensure_size ==
  /\ pc \in PacketIDs
  /\ seg = 0
  /\ IF Decoder.ensure.tag = "Ok"
       THEN /\ seg' = 1
            /\ UNCHANGED <<pc, items, acc, outcome>>
       ELSE Abort(Decoder.ensure)
  /\ UNCHANGED <<calls, log, entry, buf_len, size, fill, patch, pos, header>>

read_fields ==
  /\ pc \in PacketIDs
  /\ seg \in 1..Len(Decoder.body)
  /\ Segment.type = "fields"
  /\ \E r \in {ParseStruct(Segment.layout, pos)} :
         /\ pos' = r.pos
         /\ IF r.tag = "Ok"
              THEN /\ acc' = r.v @@ acc
                   /\ seg' = seg + 1
                   /\ UNCHANGED <<pc, items, outcome>>
              ELSE Abort(r)
  /\ UNCHANGED <<calls, log, entry, buf_len, size, fill, patch, header>>

for_body ==
  /\ pc \in PacketIDs
  /\ seg \in 1..Len(Decoder.body)
  /\ Segment.type = "for"
  /\ Len(items) < Count(Segment)
  /\ \E r \in {ParseStruct(Segment.layout, pos)} :
         /\ pos' = r.pos
         /\ IF r.tag = "Ok"
              THEN /\ items' = Append(items, r.v)
                   /\ UNCHANGED <<pc, seg, acc, outcome>>
              ELSE Abort(r)
  /\ UNCHANGED <<calls, log, entry, buf_len, size, fill, patch, header>>

for_end ==
  /\ pc \in PacketIDs
  /\ seg \in 1..Len(Decoder.body)
  /\ Segment.type = "for"
  /\ Len(items) >= Count(Segment)
  /\ acc' = (Segment.name :> items) @@ acc
  /\ items' = <<>>
  /\ seg' = seg + 1
  /\ UNCHANGED <<calls, log, entry, buf_len, size, fill, patch, pos, pc, header, outcome>>

read_event ==
  /\ pc \in PacketIDs
  /\ seg \in 1..Len(Decoder.body)
  /\ Segment.type = "event"
  /\ \E r \in {parse_event(pos)} :
         /\ pos' = r.pos
         /\ IF r.tag = "Ok"
              THEN /\ acc' = [event |-> r.v] @@ acc
                   /\ seg' = seg + 1
                   /\ UNCHANGED <<pc, items, outcome>>
              ELSE Abort(r)
  /\ UNCHANGED <<calls, log, entry, buf_len, size, fill, patch, header>>

\* Ok(Packet2020::X(record)); Telemetry::next wraps it in Packet::F12020
return_ok ==
  /\ pc \in PacketIDs
  /\ seg = Len(Decoder.body) + 1
  /\ outcome' = [tag |-> "Ok",
                 packet |-> IF entry = "next" THEN "F12020" ELSE "Packet2020",
                 variant |-> Decoder.variant,
                 record |-> acc]
  /\ pc' = "done"
  /\ seg' = 0
  /\ acc' = NoLocals
  /\ UNCHANGED <<calls, log, entry, buf_len, size, fill, patch, pos, header, items>>

Next ==
  \/ Telemetry_next
  \/ parse_headers
  \/ dispatch
  \/ ensure_size
  \/ read_fields
  \/ for_body
  \/ for_end
  \/ read_event
  \/ return_ok

----------------------------------------------------------------------------
(* Datagrams the decode is run on *)

\* Bound: how many leading entries of a per-car array are given non-zero fields
PatchHead == 1

LE16(n) == <<n % 256, n \div 256>>
Write(off, bytes) == [o \in off..(off + Len(bytes) - 1) |-> bytes[o - off + 1]]

\* float bit patterns, as the little-endian bytes on the wire
F32_ONE == <<0, 0, 128, 63>>
F32_ONE_AND_HALF == <<0, 0, 192, 63>>
F32_NEG_ONE == <<0, 0, 128, 191>>
F32_NEG_ZERO == <<0, 0, 0, 128>>
F32_NAN == <<0, 0, 192, 127>>
F32_INF == <<0, 0, 128, 127>>
F32_TWO_POW_64 == <<0, 0, 128, 95>>
F64_ONE == <<0, 0, 0, 0, 0, 0, 240, 63>>
F64_NEG_ONE == <<0, 0, 0, 0, 0, 0, 240, 191>>
F64_NAN == <<0, 0, 0, 0, 0, 0, 248, 127>>

SecondsF32 == {F32_ONE, F32_ONE_AND_HALF, F32_NEG_ONE, F32_NEG_ZERO, F32_NAN, F32_INF,
               F32_TWO_POW_64}

\* "Max Verstappen\0"
MAX_VERSTAPPEN == <<77, 97, 120, 32, 86, 101, 114, 115, 116, 97, 112, 112, 101, 110, 0>>
NO_NULL_NAME == [i \in 1..48 |-> 65]

\* the header of the tests of src/lib.rs and src/f1_2020/header.rs
HeaderBytes(format, packet_id, session_time) ==
  LE16(format) \o <<1, 2, 3, packet_id>>
  \o <<255, 255, 255, 255, 255, 255, 255, 255>>
  \o session_time \o <<255, 255, 255, 255>> \o <<19, 255>>

\* a header whose bytes all differ, so that field order and byte order show
HeaderBytesDistinct(format, packet_id) ==
  LE16(format) \o <<4, 5, 6, packet_id>>
  \o <<11, 12, 13, 14, 15, 16, 17, 18>>
  \o F32_ONE_AND_HALF \o <<21, 22, 23, 24>> \o <<7, 8>>

\* a receive buffer that is only as long as the datagram received
Datagram_exact_buffer(e, bl, sz, fl, pt) ==
  [entry |-> e, buf_len |-> IF e = "next" THEN sz ELSE bl,
   size |-> sz, fill |-> fl, patch |-> pt]

Datagram(e, bl, sz, fl, pt) ==
  [entry |-> e, buf_len |-> IF e = "next" THEN RECV_BUF_LEN ELSE bl,
   size |-> sz, fill |-> fl, patch |-> pt]

Entries == {"next", "parse_f12020"}
Formats == {0, 2018, 2019, 2020, 2021}
FillBytes == {0, 1, 255}

Expected(packet_id) ==
  CASE packet_id = 0 -> MOTION_MIN_SIZE
    [] packet_id = 1 -> SESSION_MIN_SIZE
    [] packet_id = 2 -> LAP_DATA_MIN_SIZE
    [] packet_id = 3 -> EVENT_MIN_SIZE
    [] packet_id = 4 -> PARTICIPANTS_MIN_SIZE
    [] packet_id = 5 -> CAR_SETUP_MIN_SIZE
    [] packet_id = 6 -> CAR_TELEMETRY_MIN_SIZE
    [] packet_id = 7 -> CAR_STATUS_MIN_SIZE
    [] packet_id = 8 -> FINAL_CLASSIFICATION_MIN_SIZE
    [] packet_id = 9 -> LOBBY_INFO_MIN_SIZE
    [] OTHER -> HEADER_MIN_SIZE

\* any format, with and without a full header
FormatDatagrams ==
  { Datagram(e, bl, sz, 0, Write(0, HeaderBytes(f, id, F32_ONE))) :
      e \in Entries, bl \in {24, RECV_BUF_LEN}, sz \in {2, 24, 35, 1464},
      f \in Formats, id \in {0, 3} }

\* header contents, declared lengths around 24 and buffers shorter than a header
HeaderDatagrams ==
  { Datagram(e, bl, sz, 0, Write(0, HeaderBytes(FORMAT_2020, id, t))) :
      e \in Entries, bl \in {2, 16, 24, 30}, sz \in {0, 2, 23, 24, 25},
      id \in {0, 10}, t \in SecondsF32 }
  \cup
  { Datagram(e, bl, sz, 0, Write(0, HeaderBytesDistinct(FORMAT_2020, id))) :
      e \in Entries, bl \in {2, 16, 24, 30}, sz \in {0, 2, 23, 24, 25}, id \in {0, 10} }

\* every value of the packet-kind byte
KindDatagrams ==
  { Datagram(e, sz, sz, 0, Write(0, HeaderBytes(FORMAT_2020, id, F32_ONE))) :
      e \in Entries, sz \in {24, 251, 1464}, id \in 0..255 }

\* declared lengths and buffer lengths around the expected size of each kind
SizeDatagrams ==
  { Datagram(e, Expected(id) + db, Expected(id) + ds, fl,
             Write(0, HeaderBytes(FORMAT_2020, id, F32_ONE))) :
      e \in Entries, db \in {-1, 0, 3}, ds \in {-1, 0, 1, 3}, fl \in FillBytes, id \in 0..9 }
  \cup
  { Datagram(e, RECV_BUF_LEN, sz, fl, Write(0, HeaderBytes(FORMAT_2020, id, F32_ONE))) :
      e \in Entries, sz \in {24, RECV_BUF_LEN}, fl \in FillBytes, id \in 0..9 }

\* offsets of the fields of a decoder, given the number of marshal zones
RECURSIVE SizeOf(_, _)
SizeOf(layout, n) == IF n = 0 THEN 0 ELSE SizeOf(layout, n - 1) + Width(layout[n][2])

SegCount(s, nz) == IF s.count_local = "" THEN s.count ELSE nz
SegSize(s, nz) ==
  CASE s.type = "fields" -> SizeOf(s.layout, Len(s.layout))
    [] s.type = "for" -> SegCount(s, nz) * SizeOf(s.layout, Len(s.layout))
    [] OTHER -> 0

RECURSIVE SegBase(_, _, _)
SegBase(body, j, nz) ==
  IF j = 1 THEN HEADER_MIN_SIZE ELSE SegBase(body, j - 1, nz) + SegSize(body[j - 1], nz)

\* the first PatchHead iterations of a loop and its last one
Iters(n) == ((0..(PatchHead - 1)) \cup {n - 1}) \cap (0..(n - 1))

SegSites(s, base, nz) ==
  CASE s.type = "fields" ->
         { [off |-> base + SizeOf(s.layout, f - 1), ty |-> s.layout[f][2]] :
             f \in 1..Len(s.layout) }
    [] s.type = "for" ->
         { [off |-> base + k * SizeOf(s.layout, Len(s.layout)) + SizeOf(s.layout, f - 1),
            ty |-> s.layout[f][2]] :
             k \in Iters(SegCount(s, nz)), f \in 1..Len(s.layout) }
    [] OTHER -> {}

BodySites(body, nz) ==
  UNION { SegSites(body[j], SegBase(body, j, nz), nz) : j \in 1..Len(body) }

Sites(id, nz) == BodySites(parse_f12020(id, 0).body, nz)

\* bytes written over a field of a given type
Values(ty) ==
  CASE ty \in {"u8", "i8", "bool", "secs_u8"} -> {<<1>>, <<23>>, <<255>>}
    [] ty \in EnumsU8 \cup EnumsI8 -> {<<1>>, <<6>>, <<52>>, <<255>>}
    [] ty \in {"u16", "i16", "millis_u16"} -> {<<1, 2>>, <<255, 255>>}
    [] ty = "u32" -> {<<1, 2, 3, 4>>}
    [] ty = "f32" -> {F32_ONE, F32_NEG_ONE, F32_NAN}
    [] ty = "secs_f32" -> SecondsF32
    [] ty = "secs_f64" -> {F64_ONE, F64_NEG_ONE, F64_NAN}
    [] ty \in {"parse_name", "chars48"} -> {MAX_VERSTAPPEN, NO_NULL_NAME}
    [] OTHER -> {}

\* the decoder whose fields the packet of a kind code is laid out for
KindOf ==
  << "Motion", "Session", "LapData", "Event", "Participants", "CarSetups", "CarTelemetry",
     "CarStatus", "FinalClassification", "LobbyInfo" >>

\* one field of one entry differs from an all-zero packet of the right size
FieldDatagrams ==
  UNION { UNION { { Datagram(e, Expected(id) + ds, Expected(id) + ds, 0,
                             Write(site.off, v)
                             @@ Write(0, HeaderBytes(FORMAT_2020, id, F32_ONE))) :
                      e \in Entries, v \in Values(site.ty),
                      ds \in IF id \in {0, 2, 4} THEN {0, 3} ELSE {0} } :
                  site \in Sites(KindOf[id + 1], 0) } :
          id \in (0..9) \ {3} }

\* Session packets by number of marshal zones, safety-car code and zone flag
ZoneCounts == {0, 1, 2, 21, 22, 255}
SessionDatagrams ==
  UNION { { Datagram(e, bl, SESSION_MIN_SIZE, 0,
                     (42 :> n) @@ ((43 + 5 * n) :> sc)
                     @@ (IF n = 0 THEN <<>> ELSE ((43 + 5 * j + 4) :> flag))
                     @@ Write(0, HeaderBytes(FORMAT_2020, 1, F32_ONE))) :
              e \in Entries, bl \in {SESSION_MIN_SIZE, RECV_BUF_LEN},
              sc \in {0, 2, 3}, j \in Iters(n) \cup {0}, flag \in {0, 5, 255} } :
          n \in ZoneCounts }

\* Event packets by code and by the byte that fills the rest
EventCodes ==
  { <<83, 83, 84, 65>>, <<83, 69, 78, 68>>, <<70, 84, 76, 80>>, <<82, 84, 77, 84>>,
    <<68, 82, 83, 69>>, <<68, 82, 83, 68>>, <<84, 77, 80, 84>>, <<67, 72, 81, 70>>,
    <<82, 67, 87, 78>>, <<80, 69, 78, 65>>, <<83, 80, 84, 80>> }
OtherCodes == { <<88, 88, 88, 88>>, <<115, 115, 116, 97>>, <<83, 83, 84, 0>> }
EventDatagrams ==
  { Datagram(e, bl, EVENT_MIN_SIZE, fl,
             Write(24, code) @@ Write(0, HeaderBytes(FORMAT_2020, 3, F32_ONE))) :
      e \in Entries, bl \in {26, 30, EVENT_MIN_SIZE}, fl \in FillBytes \cup {63},
      code \in EventCodes \cup OtherCodes }

\* every value of the byte of a coded field, in the first entry that has the field
CodedFields ==
  {"parse_weather", "parse_session_type", "parse_team", "parse_nationality",
   "parse_actual_tyre_compound", "parse_visual_tyre_compound"}
FirstSites(id) ==
  { s \in Sites(KindOf[id + 1], 0) :
      /\ s.ty \in CodedFields
      /\ \A t \in Sites(KindOf[id + 1], 0) : t.ty = s.ty => s.off <= t.off }
CodeDatagrams ==
  UNION { { Datagram("parse_f12020", Expected(id), Expected(id), 0,
                     (site.off :> v) @@ Write(0, HeaderBytes(FORMAT_2020, id, F32_ONE))) :
              site \in FirstSites(id), v \in 0..255 } :
          id \in {1, 4, 7, 9} }

\* Participants packets in a buffer that ends in or after the first name slot
NameDatagrams ==
  { Datagram("parse_f12020", bl, PARTICIPANTS_MIN_SIZE, 0,
             Write(30, name) @@ Write(0, HeaderBytes(FORMAT_2020, 4, F32_ONE))) :
      bl \in {30, 35, 50, 77, 78, 79}, name \in {<<0>>, MAX_VERSTAPPEN, NO_NULL_NAME} }

Datagrams ==
  FormatDatagrams \cup HeaderDatagrams \cup KindDatagrams \cup SizeDatagrams
  \cup FieldDatagrams \cup SessionDatagrams \cup EventDatagrams \cup CodeDatagrams
  \cup NameDatagrams

Init ==
  /\ \E d \in Datagrams :
       /\ entry = d.entry
       /\ buf_len = d.buf_len
       /\ size = d.size
       /\ fill = d.fill
       /\ patch = d.patch
       /\ pc = IF d.entry = "next" THEN "next" ELSE "parse_headers"
  /\ pos = 0
  /\ header = NoHeader
  /\ seg = 0
  /\ items = <<>>
  /\ acc = NoLocals
  /\ outcome = NoOutcome
  /\ calls = NoCalls
  /\ log = <<>>

Spec == Init /\ [][Next]_vars

----------------------------------------------------------------------------
(* Several calls.  Every call owns its buffer, its cursor and its locals   *)
(* (Telemetry::next builds them afresh; parse_f12020 borrows the caller's  *)
(* cursor for the length of the call), and the crate has no static or      *)
(* shared mutable item.  The variables above are those of the call that    *)
(* takes the next step; `calls.waiting` keeps the calls that wait at an    *)
(* .await, and a call that returned is entered in `log`.                   *)

\* Bound: number of calls made in one behaviour
MaxCalls == 3

Own ==
  [entry |-> entry, buf_len |-> buf_len, size |-> size, fill |-> fill, patch |-> patch,
   pos |-> pos, pc |-> pc, header |-> header, seg |-> seg, items |-> items, acc |-> acc,
   outcome |-> outcome]

\* let buf = vec![0; 2048]; recv_from; Cursor::new(buf)
Fresh(d) ==
  [entry |-> d.entry, buf_len |-> d.buf_len, size |-> d.size, fill |-> d.fill,
   patch |-> d.patch, pos |-> 0,
   pc |-> IF d.entry = "next" THEN "next" ELSE "parse_headers",
   header |-> NoHeader, seg |-> 0, items |-> <<>>, acc |-> NoLocals, outcome |-> NoOutcome]

\* a call that would go on with the cursor of the call that ran before it
Resume_shared_cursor(c) ==
  /\ entry' = c.entry
  /\ buf_len' = c.buf_len
  /\ size' = c.size
  /\ fill' = c.fill
  /\ patch' = c.patch
  /\ pos' = pos
  /\ pc' = c.pc
  /\ header' = c.header
  /\ seg' = c.seg
  /\ items' = c.items
  /\ acc' = c.acc
  /\ outcome' = c.outcome

\* the call c goes on where it stopped, with what it owns
Resume(c) ==
  /\ entry' = c.entry
  /\ buf_len' = c.buf_len
  /\ size' = c.size
  /\ fill' = c.fill
  /\ patch' = c.patch
  /\ pos' = c.pos
  /\ pc' = c.pc
  /\ header' = c.header
  /\ seg' = c.seg
  /\ items' = c.items
  /\ acc' = c.acc
  /\ outcome' = c.outcome

Started == Len(log) + Len(calls.waiting) + (IF pc = "idle" THEN 0 ELSE 1)

\* a few datagrams of every outcome
CallDatagrams ==
  { Datagram("next", 0, EVENT_MIN_SIZE, 0,
             Write(24, <<83, 83, 84, 65>>) @@ Write(0, HeaderBytes(FORMAT_2020, 3, F32_ONE))),
    Datagram("parse_f12020", PARTICIPANTS_MIN_SIZE, PARTICIPANTS_MIN_SIZE, 0,
             Write(30, MAX_VERSTAPPEN) @@ Write(0, HeaderBytes(FORMAT_2020, 4, F32_ONE))),
    Datagram("parse_f12020", PARTICIPANTS_MIN_SIZE, PARTICIPANTS_MIN_SIZE, 0,
             (83 :> 200) @@ Write(0, HeaderBytes(FORMAT_2020, 4, F32_ONE))),
    Datagram("parse_f12020", 30, 30, 0, Write(0, HeaderBytes(FORMAT_2020, 10, F32_NEG_ONE))),
    Datagram("next", 0, HEADER_MIN_SIZE, 0, Write(0, HeaderBytes(2019, 0, F32_ONE))) }

\* the running call reaches an .await and another call takes the next step
await_switch ==
  /\ pc \notin {"done", "idle"}
  /\ calls.waiting # <<>>
  /\ Resume(Head(calls.waiting).own)
  /\ calls' = [running |-> Head(calls.waiting).id,
               waiting |-> Append(Tail(calls.waiting), [id |-> calls.running, own |-> Own]),
               mixed |-> calls.mixed \cup {calls.running}]
  /\ UNCHANGED log

\* the running call returned: its caller has the result and the call's buffer is dropped
call_returns ==
  /\ pc = "done"
  /\ log' = Append(log, [id |-> calls.running,
                         datagram |-> [entry |-> entry, buf_len |-> buf_len, size |-> size,
                                       fill |-> fill, patch |-> patch],
                         outcome |-> outcome, pos |-> pos,
                         mixed |-> calls.running \in calls.mixed])
  /\ \/ /\ calls.waiting # <<>>
        /\ Resume(Head(calls.waiting).own)
        /\ calls' = [calls EXCEPT !.running = Head(calls.waiting).id,
                                  !.waiting = Tail(calls.waiting)]
     \/ /\ Started < MaxCalls
        /\ \E d \in CallDatagrams : Resume(Fresh(d))
        /\ calls' = [calls EXCEPT !.running = Started + 1]
     \/ /\ calls.waiting = <<>>
        /\ Started >= MaxCalls
        /\ pc' = "idle"
        /\ UNCHANGED <<entry, buf_len, size, fill, patch, pos, header, seg, items, acc,
                       outcome, calls>>

CallsInit ==
  /\ \E d \in CallDatagrams : \E e \in CallDatagrams :
       /\ entry = d.entry
       /\ buf_len = d.buf_len
       /\ size = d.size
       /\ fill = d.fill
       /\ patch = d.patch
       /\ pc = Fresh(d).pc
       /\ calls = [running |-> 1, waiting |-> << [id |-> 2, own |-> Fresh(e)] >>, mixed |-> {}]
  /\ pos = 0
  /\ header = NoHeader
  /\ seg = 0
  /\ items = <<>>
  /\ acc = NoLocals
  /\ outcome = NoOutcome
  /\ log = <<>>

CallsNext ==
  \/ Telemetry_next
  \/ parse_headers
  \/ dispatch
  \/ ensure_size
  \/ read_fields
  \/ for_body
  \/ for_end
  \/ read_event
  \/ return_ok
  \/ await_switch
  \/ call_returns

SpecCalls == CallsInit /\ [][CallsNext]_vars

----------------------------------------------------------------------------
(* Properties of a decode call *)

\* parse_headers has been called and has ended
HeaderRan == pc \notin {"next", "parse_headers"} /\ outcome # Panic("not implemented")

\* the per-kind decoder is past its size check, or the call has ended
SizeChecked == header # NoHeader /\ pc # "packet_type" /\ ~(pc \in PacketIDs /\ seg = 0)

(* C1: whatever the buffer holds and whatever length is declared, a decode *)
(* never panics: once it has ended it has returned a packet record or an   *)
(* error value, also when a seconds-as-float field is negative, NaN or     *)
(* infinite.                                                               *)
C1_NeverPanics ==
  /\ outcome.tag # "Panic"
  /\ pc = "done" => outcome.tag \in {"Ok", "Err"}

(* C2: when the 16-bit format at offset 0 is not 2020 the call ends with   *)
(* an error value returned to the caller, and neither the header nor the   *)
(* kind has been decoded: the cursor is still at 0.                        *)
C2_UnsupportedFormatIsAnError ==
  (pc = "done" /\ read_u16(0) # 2020) =>
    /\ outcome.tag = "Err"
    /\ header = NoHeader
    /\ pos = 0

(* C3: header decode with a declared length below 24 fails with the size   *)
(* error of the header whatever the buffer holds, and no field has been    *)
(* read: the cursor is still at 0 and no header exists.                    *)
C3_ShortHeaderIsInvalidSize ==
  (HeaderRan /\ size < 24) =>
    /\ pc = "done"
    /\ outcome = Err("Header size is too small")
    /\ header = NoHeader
    /\ pos = 0

\* a declared length of 23 over a full 24-byte header with a bad session time
C3_Witness ==
  /\ entry = "parse_f12020"
  /\ size = 23
  /\ buf_len >= 24
  /\ <<Byte(14), Byte(15), Byte(16), Byte(17)>> = F32_NAN
  /\ pc = "done"
  /\ outcome = Err("Header size is too small")
  /\ pos = 0

(* C4: header decode with a declared length of 24 or more over a buffer of *)
(* 24 bytes or more returns a header whose integer fields are the          *)
(* little-endian values of bytes 0-1, 2, 3, 4, 5, 6-13, 18-21, 22 and 23,  *)
(* whose session time is 1000 ms when bytes 14-17 are the float 1.0, and   *)
(* leaves the cursor at 24.                                                *)
C4_HeaderDecoded ==
  (HeaderRan /\ size >= 24 /\ buf_len >= 24) =>
    /\ header # NoHeader
    /\ pc = "packet_type" => pos = 24
    /\ pos >= 24
    /\ header.packet_format = Byte(0) + 256 * Byte(1)
    /\ header.major_version = Byte(2)
    /\ header.minor_version = Byte(3)
    /\ header.packet_version = Byte(4)
    /\ header.packet_id = Byte(5)
    /\ header.session_uid = << Byte(12) + 256 * Byte(13), Byte(10) + 256 * Byte(11),
                               Byte(8) + 256 * Byte(9), Byte(6) + 256 * Byte(7) >>
    /\ header.frame_identifier = << Byte(20) + 256 * Byte(21), Byte(18) + 256 * Byte(19) >>
    /\ header.player_car_index = Byte(22)
    /\ header.secondary_player_car_index = Byte(23)
    /\ <<Byte(14), Byte(15), Byte(16), Byte(17)>> = F32_ONE =>
         1000 * header.session_time.secs + header.session_time.subsec_millis = 1000

\* the ten kinds in the order of their codes
C5_Kinds ==
  << "Motion", "Session", "Lap", "Event", "Participants", "CarSetups", "CarTelemetry",
     "CarStatus", "FinalClassification", "LobbyInfo" >>

(* C5: once the kind byte of the header has been dispatched, a code 0..9   *)
(* has selected the decoder of the kind the table lists for it, a packet   *)
(* returned is of that kind and the unknown-kind error is not returned; a  *)
(* code 10..255 has ended the call with the unknown-kind error and the     *)
(* cursor still at 24, no decoder having run.                              *)
C5_KindTable ==
  (header # NoHeader /\ pc # "packet_type") =>
    IF header.packet_id \in 0..9
      THEN /\ pc \in PacketIDs => Decoder.variant = C5_Kinds[header.packet_id + 1]
           /\ outcome.tag = "Ok" => outcome.variant = C5_Kinds[header.packet_id + 1]
           /\ outcome # Err("Failed to parse packet_type")
      ELSE /\ pc = "done"
           /\ outcome = Err("Failed to parse packet_type")
           /\ acc = NoLocals
           /\ pos = 24

\* the first code outside the table, over a buffer long enough for any kind
C5_Witness ==
  /\ header # NoHeader
  /\ header.packet_id = 10
  /\ size = 1464
  /\ pc = "done"
  /\ outcome = Err("Failed to parse packet_type")
  /\ pos = 24

\* expected size and size error of the kinds with the exact-size policy, by code
C6_ExactSize ==
  (1 :> 251) @@ (3 :> 35) @@ (5 :> 1102) @@ (6 :> 1307) @@ (7 :> 1344) @@ (8 :> 839)
  @@ (9 :> 1169)
C6_SizeError ==
  (1 :> "Session size is too small") @@ (3 :> "Event size is too small")
  @@ (5 :> "Car setup size is too small") @@ (6 :> "Car telemetry size is too small")
  @@ (7 :> "Car status size is too small")
  @@ (8 :> "Final classification size is too small")
  @@ (9 :> "Lobby info size is too small")

(* C6: for Session, Event, CarSetups, CarTelemetry, CarStatus,             *)
(* FinalClassification and LobbyInfo, a declared length other than the     *)
(* expected size, smaller or larger, ends the call with the size error of  *)
(* the kind and the cursor still at 24, whatever the bytes are; the size   *)
(* error is returned for no other declared length.                         *)
C6_ExactSizeOrInvalidSize ==
  (SizeChecked /\ header.packet_id \in DOMAIN C6_ExactSize) =>
    IF size # C6_ExactSize[header.packet_id]
      THEN /\ pc = "done"
           /\ outcome = Err(C6_SizeError[header.packet_id])
           /\ acc = NoLocals
           /\ pos = 24
      ELSE outcome # Err(C6_SizeError[header.packet_id])

\* a Session datagram one byte longer than expected, over valid all-zero fields
C6_Witness ==
  /\ header # NoHeader
  /\ header.packet_id = 1
  /\ size = 252
  /\ buf_len >= 252
  /\ fill = 0
  /\ pc = "done"
  /\ outcome = Err("Session size is too small")
  /\ pos = 24

\* minimum size and size error of the kinds with the minimum-size policy, by code
C7_MinSize == (0 :> 1464) @@ (2 :> 1190) @@ (4 :> 1213)
C7_SizeError ==
  (0 :> "Motion size is too small") @@ (2 :> "Lap data size is too small")
  @@ (4 :> "Participants size is too small")

(* C7: for Motion, Lap and Participants, a declared length below the       *)
(* minimum ends the call with the size error of the kind and the cursor at *)
(* 24; a declared length at or above the minimum never gives the size      *)
(* error, the cursor never passes the minimum, and a successful decode     *)
(* ends with the cursor exactly at the minimum, so the record is that of   *)
(* the minimum-length prefix and the trailing bytes are not read.          *)
C7_MinSizeAccepted ==
  (SizeChecked /\ header.packet_id \in DOMAIN C7_MinSize) =>
    IF size < C7_MinSize[header.packet_id]
      THEN /\ pc = "done"
           /\ outcome = Err(C7_SizeError[header.packet_id])
           /\ pos = 24
      ELSE /\ outcome # Err(C7_SizeError[header.packet_id])
           /\ pos <= C7_MinSize[header.packet_id]
           /\ outcome.tag = "Ok" => pos = C7_MinSize[header.packet_id]

\* a Motion datagram of 1467 bytes decoded successfully
C7_Witness ==
  /\ header # NoHeader
  /\ header.packet_id = 0
  /\ size = 1467
  /\ buf_len >= 1467
  /\ pc = "done"
  /\ outcome.tag = "Ok"
  /\ outcome.variant = "Motion"
  /\ pos = 1464

\* the per-car array of each kind that has one
C8_PerCarArray ==
  [k \in {"Motion", "Lap", "Participants", "CarSetups", "CarTelemetry", "CarStatus",
          "FinalClassification", "LobbyInfo"} |->
     CASE k = "Motion" -> "motion_data"
       [] k = "Lap" -> "lap_data"
       [] k = "Participants" -> "participants"
       [] k = "CarSetups" -> "car_setup_data"
       [] k = "CarTelemetry" -> "car_telemetry_data"
       [] k = "CarStatus" -> "car_status_data"
       [] k = "FinalClassification" -> "final_classification_data"
       [] k = "LobbyInfo" -> "lobby_info_data"]

(* C8: a successful decode of Motion, Lap, Participants, CarSetups,        *)
(* CarTelemetry, CarStatus, FinalClassification or LobbyInfo returns a     *)
(* per-car array of exactly 22 entries, whatever the count field of the    *)
(* packet holds.                                                           *)
C8_TwentyTwoEntries ==
  (outcome.tag = "Ok" /\ outcome.variant \in DOMAIN C8_PerCarArray) =>
    Len(outcome.record[C8_PerCarArray[outcome.variant]]) = 22

\* a Participants packet that declares a single active car
C8_Witness ==
  /\ pc = "done"
  /\ outcome.tag = "Ok"
  /\ outcome.variant = "Participants"
  /\ outcome.record.num_active_cars = 1
  /\ Len(outcome.record.participants) = 22

\* names a complete record of the kind holds
C9_RecordNames(body) ==
  {"header"}
  \cup UNION { CASE body[j].type = "fields" -> Names(body[j].layout)
                 [] body[j].type = "for" -> {body[j].name}
                 [] OTHER -> {"event"} : j \in 1..Len(body) }

(* C9: a decode call that has ended has exactly one outcome, a complete    *)
(* record holding every field of its kind or a single error; when it ended *)
(* with an error nothing decoded before the failure is left to the caller. *)
C9_RecordOrError ==
  pc = "done" =>
    \/ /\ outcome.tag = "Ok"
       /\ header # NoHeader
       /\ DOMAIN outcome.record =
            C9_RecordNames(parse_f12020(packet_type(header.packet_id).v, size).body)
    \/ /\ outcome.tag = "Err"
       /\ DOMAIN outcome = {"tag", "kind", "msg"}
       /\ acc = NoLocals
       /\ items = <<>>

\* the three safety-car codes
C10_SafetyCar == (0 :> "None") @@ (1 :> "Full") @@ (2 :> "Virtual")

(* C10: a successful Session decode holds as many marshal zones as byte 42 *)
(* (num_marshal_zones) declares, its safety-car status is the one coded by *)
(* the byte at 43 + 5 * num_marshal_zones, and the cursor ends 103 bytes   *)
(* after that byte; the safety-car error is returned only for the byte at  *)
(* that offset, with the cursor just past it.                              *)
C10_DeclaredMarshalZones ==
  LET n == Byte(42) IN
  /\ (outcome.tag = "Ok" /\ outcome.variant = "Session") =>
       /\ outcome.record.num_marshal_zones = n
       /\ Len(outcome.record.marshal_zone) = n
       /\ Byte(43 + 5 * n) \in DOMAIN C10_SafetyCar
       /\ outcome.record.safety_car_status = C10_SafetyCar[Byte(43 + 5 * n)]
       /\ pos = 43 + 5 * n + 103
  /\ outcome = Err("Invalid safety car") =>
       /\ Byte(43 + 5 * n) \notin DOMAIN C10_SafetyCar
       /\ pos = 43 + 5 * n + 1

\* two zones declared, virtual safety car coded right after them
C10_Witness ==
  /\ pc = "done"
  /\ outcome.tag = "Ok"
  /\ outcome.variant = "Session"
  /\ outcome.record.num_marshal_zones = 2
  /\ Len(outcome.record.marshal_zone) = 2
  /\ Byte(53) = 2
  /\ outcome.record.safety_car_status = "Virtual"

(* C11: the marshal-zone list of a successfully decoded Session record    *)
(* has at most 21 entries, whatever byte 42 (num_marshal_zones) holds.     *)
C11_AtMostTwentyOneZones ==
  (outcome.tag = "Ok" /\ outcome.variant = "Session") =>
    Len(outcome.record.marshal_zone) <= 21

(* C12: a successful Session decode holds exactly 20 weather-forecast      *)
(* samples, read from the 100 bytes after the sample-count byte whatever   *)
(* that count is: each of the 20 slots holds a declared session-type code  *)
(* (0..12) and a declared weather code (0..5), its time offset is the      *)
(* second byte of the slot, and the cursor ends just after slot 20.        *)
C12_TwentyForecastSamples ==
  LET base == 46 + 5 * Byte(42) IN
  (outcome.tag = "Ok" /\ outcome.variant = "Session") =>
    /\ outcome.record.num_weather_forecast_samples = Byte(base - 1)
    /\ Len(outcome.record.weather_forecast_sample) = 20
    /\ \A k \in 0..19 :
         /\ Byte(base + 5 * k) \in 0..12
         /\ Byte(base + 5 * k + 2) \in 0..5
         /\ outcome.record.weather_forecast_sample[k + 1].time_offset
              = Byte(base + 5 * k + 1)
    /\ pos = base + 100

\* no sample declared, an undeclared weather code in the last of the 20 slots
C12_Witness ==
  /\ header # NoHeader
  /\ header.packet_id = 1
  /\ size = 251
  /\ Byte(42) = 0
  /\ Byte(45) = 0
  /\ Byte(143) = 6
  /\ pc = "done"
  /\ outcome = Err("Invalid weather")
  /\ pos = 144

\* the eleven event codes, the variant of each and the bytes read after the code
C13_Events ==
  { [code |-> <<83, 83, 84, 65>>, variant |-> "SessionStarted", trailing |-> 0],
    [code |-> <<83, 69, 78, 68>>, variant |-> "SessionEnded", trailing |-> 0],
    [code |-> <<68, 82, 83, 69>>, variant |-> "DRSEnabled", trailing |-> 0],
    [code |-> <<68, 82, 83, 68>>, variant |-> "DRSDisabled", trailing |-> 0],
    [code |-> <<67, 72, 81, 70>>, variant |-> "ChequeredFlag", trailing |-> 0],
    [code |-> <<82, 84, 77, 84>>, variant |-> "Retirement", trailing |-> 1],
    [code |-> <<84, 77, 80, 84>>, variant |-> "TeamMateInPits", trailing |-> 1],
    [code |-> <<82, 67, 87, 78>>, variant |-> "RaceWinner", trailing |-> 1],
    [code |-> <<70, 84, 76, 80>>, variant |-> "FastestLap", trailing |-> 5],
    [code |-> <<83, 80, 84, 80>>, variant |-> "SpeedTrap", trailing |-> 5],
    [code |-> <<80, 69, 78, 65>>, variant |-> "Penalty", trailing |-> 7] }

SlotBeforeNull(o) ==
  LET nulls == { i \in 0..47 : Byte(o + i) = 0 }
      n == IF nulls = {} THEN 48 ELSE CHOOSE i \in nulls : \A j \in nulls : i <= j
  IN  [i \in 1..n |-> Byte(o + i - 1)]

(* C14: in a successfully decoded Participants record the name of entry k  *)
(* is the bytes of its slot (offset 30 + 54 k) before the first null byte, *)
(* 48 bytes at most, and the cursor is 48 bytes after the start of the     *)
(* slot wherever the null is: the field after the name is decoded from the *)
(* byte after the slot and the decode ends at offset 1213.                 *)
C14_ParticipantNames ==
  (outcome.tag = "Ok" /\ outcome.variant = "Participants") =>
    /\ \A k \in 0..21 :
         /\ outcome.record.participants[k + 1].name = SlotBeforeNull(30 + 54 * k)
         /\ Len(outcome.record.participants[k + 1].name) <= 48
         /\ Byte(30 + 54 * k + 48) \in {0, 1}
         /\ outcome.record.participants[k + 1].your_telemetry
              = IF Byte(30 + 54 * k + 48) = 0 THEN "Restricted" ELSE "Public"
    /\ pos = 1213

\* "Max Verstappen" followed by a null in the slot of the first entry
C14_Witness ==
  /\ pc = "done"
  /\ outcome.tag = "Ok"
  /\ outcome.variant = "Participants"
  /\ Byte(30) = 77
  /\ Byte(44) = 0
  /\ Len(outcome.record.participants[1].name) = 14
  /\ pos = 1213

(* C15: in a successfully decoded LobbyInfo record the name of entry k is  *)
(* the bytes of its slot (offset 28 + 52 k) before the first null byte: it *)
(* holds no null byte and nothing that follows the first null.             *)
C15_LobbyNames ==
  (outcome.tag = "Ok" /\ outcome.variant = "LobbyInfo") =>
    \A k \in 0..21 :
      /\ outcome.record.lobby_info_data[k + 1].name = SlotBeforeNull(28 + 52 * k)
      /\ \A i \in 1..Len(outcome.record.lobby_info_data[k + 1].name) :
           outcome.record.lobby_info_data[k + 1].name[i] # 0

(* C16: for both tyre-compound fields of a CarStatus entry, each code      *)
(* 7..20 decodes to a variant of its own, 0 and 255 decode to Unknown, and *)
(* only the codes 1..6 and 21..254 are refused: a decode that stops with   *)
(* a tyre-compound error stopped on such a code.                           *)
C16_Declared == (7..20) \cup {0, 255}

C16_TyreCompounds ==
  (/\ pc = "done" /\ header # NoHeader /\ header.packet_id = 7
   /\ \/ outcome.tag = "Ok"
      \/ /\ outcome.tag = "Err"
         /\ outcome.msg \in {"Tyre compound invalid", "Tyre compound visual invalid"}) =>
    /\ outcome.tag = "Err" => Byte(pos - 1) \notin C16_Declared
    /\ outcome.tag = "Ok" =>
         \A k \in 0..21 :
           /\ Byte(53 + 60 * k) \in C16_Declared
           /\ Byte(54 + 60 * k) \in C16_Declared
           /\ outcome.record.car_status_data[k + 1].actual_tyre_compound = "Unknown"
                <=> Byte(53 + 60 * k) \in {0, 255}
           /\ outcome.record.car_status_data[k + 1].visual_tyre_compound = "Unknown"
                <=> Byte(54 + 60 * k) \in {0, 255}
    /\ \A v \in 7..20 : \A w \in (7..20) \ {v} :
         /\ parse_actual_tyre_compound(v).tag = "Ok"
              => parse_actual_tyre_compound(v) # parse_actual_tyre_compound(w)
         /\ parse_visual_tyre_compound(v).tag = "Ok"
              => parse_visual_tyre_compound(v) # parse_visual_tyre_compound(w)

(* C17: the team decoder accepts every code in 0..56 and 255 and refuses   *)
(* 57..254: a Participants or LobbyInfo decode that stops with the team    *)
(* error stopped on a code in 57..254, and a decoded record holds only     *)
(* codes of 0..56 and 255 in its team fields.                              *)
C17_TeamCodes ==
  (pc = "done" /\ header # NoHeader /\ header.packet_id \in {4, 9}) =>
    /\ (outcome.tag = "Err" /\ outcome.msg = "Invalid team")
         => Byte(pos - 1) \in 57..254
    /\ outcome.tag = "Ok" =>
         \A k \in 0..21 :
           Byte(IF header.packet_id = 4 THEN 27 + 54 * k ELSE 26 + 52 * k)
             \in (0..56) \cup {255}

(* C18: the nationality decoder gives each code 1..88 a variant that no    *)
(* other code gives, gives Invalid for 0 and for 255, and refuses          *)
(* 89..254: a Participants or LobbyInfo decode that stops with the         *)
(* nationality error stopped on a code in 89..254.                         *)
C18_Nationalities ==
  (/\ pc = "done" /\ header # NoHeader /\ header.packet_id \in {4, 9}
   /\ \/ outcome.tag = "Ok"
      \/ outcome.tag = "Err" /\ outcome.msg = "Invalid nationality") =>
    /\ outcome.tag = "Err" => Byte(pos - 1) \in 89..254
    /\ outcome.tag = "Ok" =>
         \A k \in 0..21 :
           \E e \in { IF header.packet_id = 4
                      THEN [code |-> Byte(29 + 54 * k),
                            v |-> outcome.record.participants[k + 1].nationality]
                      ELSE [code |-> Byte(27 + 52 * k),
                            v |-> outcome.record.lobby_info_data[k + 1].nationality] } :
             /\ e.code \in (0..88) \cup {255}
             /\ e.v = "Invalid" <=> e.code \in {0, 255}
             /\ parse_nationality(e.code) = Ok(e.v)
             /\ \A w \in (1..88) \ {e.code} : parse_nationality(w) # Ok(e.v)

\* the last declared code in the first entry of a Participants packet
C18_Witness ==
  /\ pc = "done"
  /\ header # NoHeader
  /\ header.packet_id = 4
  /\ Byte(29) = 88
  /\ outcome.tag = "Ok"
  /\ outcome.record.participants[1].nationality = "Vietnamese"

(* C19: the session-type decoder maps the codes 0..12 to Unknown, P1, P2,  *)
(* P3, ShortP, Q1, Q2, Q3, ShortQ, OSQ, R, R2, TimeTrial in that order     *)
(* (thirteen distinct variants) and refuses 13..255: a decoded Session     *)
(* record holds the documented variant in its session type and in each     *)
(* forecast slot, and a decode that stops with the session-type error      *)
(* stopped on a code in 13..255.                                           *)
C19_Documented ==
  << "Unknown", "P1", "P2", "P3", "ShortP", "Q1", "Q2", "Q3", "ShortQ", "OSQ", "R", "R2",
     "TimeTrial" >>

C19_SessionTypes ==
  (/\ pc = "done" /\ header # NoHeader /\ header.packet_id = 1
   /\ \/ outcome.tag = "Ok"
      \/ outcome.tag = "Err" /\ outcome.msg = "Invalid session type") =>
    /\ outcome.tag = "Err" => Byte(pos - 1) \in 13..255
    /\ outcome.tag = "Ok" =>
         /\ Byte(30) \in 0..12
         /\ outcome.record.session_type = C19_Documented[Byte(30) + 1]
         /\ \A k \in 0..19 :
              /\ Byte(46 + 5 * Byte(42) + 5 * k) \in 0..12
              /\ outcome.record.weather_forecast_sample[k + 1].session_type
                   = C19_Documented[Byte(46 + 5 * Byte(42) + 5 * k) + 1]
    /\ Cardinality({ C19_Documented[i] : i \in 1..13 }) = 13

(* C20: a decode that stops on a coded field holding a code outside its    *)
(* domain returns an error that identifies the field and the code: no      *)
(* other code in that field gives the same error, and the error's kind is  *)
(* not the kind of a size error, of an unknown packet kind or of an        *)
(* unknown event code.                                                     *)
C20_Refusal(msg, value) ==
  CASE msg = "Invalid weather" -> parse_weather(value)
    [] msg = "Invalid session type" -> parse_session_type(value)
    [] msg = "Invalid team" -> parse_team(value)
    [] msg = "Invalid nationality" -> parse_nationality(value)
    [] msg = "Tyre compound invalid" -> parse_actual_tyre_compound(value)
    [] msg = "Tyre compound visual invalid" -> parse_visual_tyre_compound(value)

C20_EnumErrors ==
  (/\ pc = "done"
   /\ outcome.tag = "Err"
   /\ outcome.msg \in {"Invalid weather", "Invalid session type", "Invalid team",
                       "Invalid nationality", "Tyre compound invalid",
                       "Tyre compound visual invalid"}) =>
    /\ C20_Refusal(outcome.msg, Byte(pos - 1)) = outcome
    /\ \A w \in (0..255) \ {Byte(pos - 1)} : C20_Refusal(outcome.msg, w) # outcome
    /\ outcome.kind \notin { ensure_session_size(0).kind, packet_type(10).kind,
                             parse_event_fields(<<0, 0, 0, 0>>).kind }

(* C21: Telemetry::next over a datagram of format 2020 whose declared      *)
(* length fails the header check, or the size check of its packet kind,    *)
(* ends with Err of kind InvalidData: no packet, no other kind of error    *)
(* and no other way of ending.                                             *)
C21_SizeFails ==
  \/ size < HEADER_MIN_SIZE
  \/ /\ Byte(5) \in 0..9
     /\ parse_f12020(KindOf[Byte(5) + 1], size).ensure.tag # "Ok"

C21_BadSizeIsInvalidData ==
  (entry = "next" /\ pc = "done" /\ read_u16(0) = FORMAT_2020 /\ C21_SizeFails) =>
    /\ outcome.tag = "Err"
    /\ outcome.kind = "InvalidData"

C23_Inside ==
  /\ pc # "done" => pos <= buf_len
  /\ pc = "done" =>
       /\ outcome.tag = "Ok" => pos <= buf_len
       /\ (outcome.tag = "Err" /\ outcome.kind = "UnexpectedEof") => pos >= buf_len
       /\ (outcome.tag = "Panic" \/ (outcome.tag = "Err" /\ outcome.kind # "UnexpectedEof"))
            => pos <= buf_len
       /\ (/\ header # NoHeader
           /\ header.packet_id \in (0..9) \ {1, 3}
           /\ size = Expected(header.packet_id)
           /\ buf_len < size)
            => outcome.tag # "Ok"

C23_Read ==
  /\ pos' >= pos
  /\ (pc = "parse_headers" /\ pc' = "packet_type") => pos' = pos + 24
  /\ (pc \in PacketIDs /\ seg \in 1..Len(Decoder.body) /\ pc' # "done") =>
       /\ (Segment.type = "fields" /\ seg' = seg + 1)
            => pos' = pos + SizeOf(Segment.layout, Len(Segment.layout))
       /\ (Segment.type = "for" /\ Len(items') = Len(items) + 1)
            => pos' = pos + SizeOf(Segment.layout, Len(Segment.layout))

C23_ReadsStayInside == [][C23_Read /\ C23_Inside']_vars

\* a Participants packet of the declared length in a buffer that ends inside the
\* first name slot, after the null of the name: the read after the slot fails
C23_Witness ==
  /\ pc = "done"
  /\ entry = "parse_f12020"
  /\ header # NoHeader
  /\ header.packet_id = 4
  /\ size = PARTICIPANTS_MIN_SIZE
  /\ buf_len = 50
  /\ Byte(30) = 77
  /\ Byte(44) = 0
  /\ outcome = Returned(Eof)
  /\ pos = 78

(* C24: the checks of a decode run in the order header size, header read,  *)
(* packet kind, size of the kind, fields.  A datagram of declared length   *)
(* 24 or more whose packetId is in 10..255 ends with the unknown-kind      *)
(* error and the cursor at 24; one with a packetId in 0..9 and a length    *)
(* that fails the check of its kind ends with the size error of that kind  *)
(* and the cursor at 24, no field of the kind having been read.            *)
C24_Decoded ==
  /\ pc = "done"
  /\ size >= HEADER_MIN_SIZE
  /\ buf_len >= HEADER_MIN_SIZE
  /\ entry = "next" => read_u16(0) = FORMAT_2020

C24_CheckOrder ==
  /\ (C24_Decoded /\ Byte(5) \in 10..255) =>
       /\ outcome = Returned(packet_type(Byte(5)))
       /\ pos = HEADER_MIN_SIZE
  /\ (/\ C24_Decoded
      /\ Byte(5) \in 0..9
      /\ parse_f12020(KindOf[Byte(5) + 1], size).ensure.tag # "Ok") =>
       /\ outcome = Returned(parse_f12020(KindOf[Byte(5) + 1], size).ensure)
       /\ pos = HEADER_MIN_SIZE

(* C25: a per-kind decoder reads and validates its fields one by one in    *)
(* wire order and stops at the first field that fails.  When a decode      *)
(* stops on a field, that field is the failing field of lowest offset in   *)
(* the packet, the result is the failure of that field and the cursor is   *)
(* just past it; a decode returns a record only when no field fails.  In   *)
(* a Penalty event the penalty type is judged before the infringement.     *)
C25_Fails(s) ==
  \E r \in {ReadField(s.ty, s.off)} :
    r.tag = "Panic" \/ (r.tag = "Err" /\ r.kind = "InvalidData")

C25_Failing ==
  { s \in Sites(KindOf[header.packet_id + 1], IF header.packet_id = 1 THEN Byte(42) ELSE 0) :
      C25_Fails(s) }

C25_StoppedOnField ==
  /\ pc = "done"
  /\ header # NoHeader
  /\ header.packet_id \in 0..9
  /\ parse_f12020(KindOf[header.packet_id + 1], size).ensure.tag = "Ok"
  /\ outcome.tag = "Err" => outcome.kind # "UnexpectedEof"

C26_Consumed ==
  CASE header.packet_id = 0 -> 1464
    [] header.packet_id = 1 -> 146 + 5 * outcome.record.num_marshal_zones
    [] header.packet_id = 2 -> 1190
    [] header.packet_id = 4 -> 1213
    [] header.packet_id = 5 -> 1102
    [] header.packet_id = 6 -> 1307
    [] header.packet_id = 7 -> 1344
    [] header.packet_id = 8 -> 839
    [] header.packet_id = 9 -> 1169

C26_BytesConsumed ==
  (pc = "done" /\ outcome.tag = "Ok" /\ header.packet_id # 3) =>
    /\ pos = C26_Consumed
    /\ header.packet_id = 1 =>
         /\ outcome.record.num_marshal_zones = Byte(42)
         /\ pos = SESSION_MIN_SIZE <=> outcome.record.num_marshal_zones = 21

\* a Session packet with two marshal zones: 156 of its 251 bytes are consumed
C26_Witness ==
  /\ pc = "done"
  /\ outcome.tag = "Ok"
  /\ header.packet_id = 1
  /\ size = SESSION_MIN_SIZE
  /\ outcome.record.num_marshal_zones = 2
  /\ pos = 156

(* C27: in every state of a decode that passed the size check of its kind, *)
(* the cursor is at most the declared length of the datagram: no decoder   *)
(* interprets a byte at or beyond that length.                             *)
C27_PassedSizeCheck ==
  /\ header # NoHeader
  /\ header.packet_id \in 0..9
  /\ parse_f12020(KindOf[header.packet_id + 1], size).ensure.tag = "Ok"
  /\ \/ pc \in PacketIDs /\ seg >= 1
     \/ pc = "done"

C27_CursorWithinDeclaredLength ==
  C27_PassedSizeCheck => pos <= size

(* C28: through Telemetry::next the buffer under the cursor is 2048 bytes  *)
(* long whatever the length received, the cursor never exceeds 2048 for    *)
(* any kind and any field value, and no read fails with UnexpectedEof.     *)
C28_NoEndOfBufferThroughNext ==
  entry = "next" =>
    /\ buf_len = RECV_BUF_LEN
    /\ pos <= RECV_BUF_LEN
    /\ ~(outcome.tag = "Err" /\ outcome.kind = "UnexpectedEof")

\* the longest decode: a Session datagram of 251 bytes that declares 255 zones
C28_Witness ==
  /\ entry = "next"
  /\ pc = "done"
  /\ size = SESSION_MIN_SIZE
  /\ Byte(42) = 255
  /\ outcome.tag = "Ok"
  /\ Len(outcome.record.marshal_zone) = 255
  /\ pos = 1421

(* C29: for FuelMix, DRSStatus, ERSDeploymentMode, MFDPanel and ZoneFlag   *)
(* the variant decoded from a wire code is the one declared with that      *)
(* code as its discriminant, so that the variant converts back to the      *)
(* code, and every declared variant is decoded from some code.  Stated     *)
(* over the fields of these types in CarStatus, CarTelemetry and Session   *)
(* records: the field's variant has the field's wire code as discriminant, *)
(* and the variant declared with that code is decoded from some code.      *)
C29_Agrees(enum, ty, codes, variant, c) ==
  /\ enum[variant] = c
  /\ \A declared \in DOMAIN enum :
       enum[declared] = c => \E from \in codes : Validate(ty, from) = Ok(declared)

C29_DiscriminantIsWireCode ==
  (pc = "done" /\ outcome.tag = "Ok" /\ header.packet_id \in {1, 6, 7}) =>
    /\ header.packet_id = 7 =>
         \A k \in 0..21 : \E e \in {outcome.record.car_status_data[k + 1]} :
           /\ C29_Agrees(FuelMix, "parse_fuel_mix", 0..255, e.fuel_mix, read_u8(26 + 60 * k))
           /\ C29_Agrees(ZoneFlag, "parse_flag", -128..127,
                         e.vehicle_fia_flags, read_i8(66 + 60 * k))
           /\ C29_Agrees(DRSStatus, "parse_drs", -128..127,
                         e.drs_allowed, read_i8(46 + 60 * k))
           /\ C29_Agrees(ERSDeploymentMode, "parse_ers_deployment_mode", 0..255,
                         e.ers_deploy_mode, read_u8(71 + 60 * k))
    /\ header.packet_id = 6 =>
         /\ C29_Agrees(MFDPanel, "parse_mfd_panel", 0..255,
                       outcome.record.mfd_panel_index, read_u8(1304))
         /\ C29_Agrees(MFDPanel, "parse_mfd_panel", 0..255,
                       outcome.record.mfd_panel_index_secondary_player, read_u8(1305))
    /\ header.packet_id = 1 =>
         \A k \in 1..Len(outcome.record.marshal_zone) :
           C29_Agrees(ZoneFlag, "parse_flag", -128..127,
                      outcome.record.marshal_zone[k].zone_flag, read_i8(43 + 5 * (k - 1) + 4))

\* the flag fields: kind code, per-car array, entry layout, offset of entry 0
C30_Flags ==
  { [id |-> 2, array |-> "lap_data", layout |-> parse_lap, base |-> 24],
    [id |-> 4, array |-> "participants", layout |-> parse_participant, base |-> 25],
    [id |-> 6, array |-> "car_telemetry_data", layout |-> parse_car_telemetry, base |-> 24],
    [id |-> 7, array |-> "car_status_data", layout |-> parse_car_status, base |-> 24],
    [id |-> 9, array |-> "lobby_info_data", layout |-> parse_lobby_info, base |-> 25] }

\* where field f of entry k of the array lies in the datagram
C30_Offset(a, k, f) ==
  a.base + k * SizeOf(a.layout, Len(a.layout)) + SizeOf(a.layout, f - 1)

(* C30: a flag field (ai_controlled, pit_limiter, drs, drs_fault,          *)
(* current_lap_invalid) of a returned record is true exactly when its      *)
(* wire byte is 1, and no decode stops with an error or a panic on a flag  *)
(* byte, whatever its value.                                               *)
C30_FlagIsByteOne ==
  (pc = "done" /\ header # NoHeader) =>
    \A a \in C30_Flags : a.id = header.packet_id =>
      \A k \in 0..(TOTAL_CARS - 1) : \A f \in 1..Len(a.layout) : a.layout[f][2] = "bool" =>
        \E off \in {C30_Offset(a, k, f)} :
          /\ outcome.tag = "Ok" =>
               outcome.record[a.array][k + 1][a.layout[f][1]] = (Byte(off) = 1)
          /\ (outcome.tag = "Panic" \/ (outcome.tag = "Err" /\ outcome.kind = "InvalidData")) =>
               pos # off + 1
          /\ CanRead(off, 1) => ReadField("bool", off) = At(Byte(off) = 1, off + 1)

\* byte 1288, pit_limiter of the last car, holds 255: the flag is false
C30_Witness ==
  /\ pc = "done"
  /\ outcome.tag = "Ok"
  /\ outcome.variant = "CarStatus"
  /\ C30_Offset(CHOOSE a \in C30_Flags : a.id = 7, 21, 5) = 1288
  /\ Byte(1288) = 255
  /\ outcome.record.car_status_data[22].pit_limiter = FALSE
  /\ pos = 1344

====
